---- MODULE Spec2Model ----
(***************************************************************************)
(* Caching and aggregation-consistency subsystem of aiq-energy-insights:   *)
(* the cached service layer (PlantsService, StatesService), the Query      *)
(* Engine (PlantRepository), the read-through StateRepository, the Redis   *)
(* helper (deleteByPrefix), the cache-warming service and the ingestion    *)
(* script (transaction, materialized-view refresh, invalidation, warming). *)
(*                                                                         *)
(* Strings that the code builds or matches (cache keys, prefixes, state    *)
(* codes) are sequences of one-character strings, so that prefix matching  *)
(* and key construction are computed character by character.  JavaScript   *)
(* values are tagged trees (JsNum, JsStr, JsDec, JsArr, JsObj); a JSON     *)
(* text is represented by the tree JSON.parse would build from it.         *)
(***************************************************************************)
EXTENDS Integers, Sequences, FiniteSets, TLC

\* ------------------------------------------------------------------ bounds
MaxRequests == 2      \* API requests issued in one behaviour
MaxRows     == 2      \* rows of the ingested source sheet
MaxFaults   == 1      \* store / cache call failures injected in one behaviour
MaxStates   == 12     \* states in the store of the warming-only runs

\* ------------------------------------------------------- program constants
CACHE_TTL         == 3600
CONCURRENCY_LIMIT == 10
CURRENT_YEAR      == 2023
SCAN_COUNT        == 100
RECENT_YEARS      == 5
DEFAULT_TOP       == 10
DEFAULT_YEAR      == 2023
DETAIL_TOP        == 10
WARM_TOP_A        == 10
WARM_TOP_B        == 20

\* --------------------------------------------------------------- characters
Digit == <<"0", "1", "2", "3", "4", "5", "6", "7", "8", "9">>

RECURSIVE NumChars(_)
\* String(n) for a non-negative integer, as template literals format numbers.
NumChars(n) ==
  IF n < 10 THEN <<Digit[n + 1]>>
  ELSE NumChars(n \div 10) \o <<Digit[(n % 10) + 1]>>

\* String.prototype.toUpperCase on the letters the model uses.
UpperChar(c) ==
  CASE c = "t" -> "T"
    [] c = "x" -> "X"
    [] c = "c" -> "C"
    [] c = "a" -> "A"
    [] c = "f" -> "F"
    [] c = "l" -> "L"
    [] c = "z" -> "Z"
    [] OTHER   -> c

toUpperCase(s) == [i \in DOMAIN s |-> UpperChar(s[i])]

\* String.prototype.startsWith / the glob `${prefix}*` of SCAN MATCH.
StartsWith(s, p) == Len(s) >= Len(p) /\ SubSeq(s, 1, Len(p)) = p

Colon == <<":">>
ALL   == <<"A", "L", "L">>

TX == <<"T", "X">>
CA == <<"C", "A">>
FL == <<"F", "L">>
ZZ == <<"Z", "Z">>
tx == <<"t", "x">>

\* ---------------------------------------------------------- JavaScript values
Null == [t |-> "null"]

Gcd(a, b) ==
  IF a = 0 THEN b
  ELSE IF b = 0 THEN a
  ELSE CHOOSE d \in 1..(IF a < b THEN a ELSE b) :
         /\ a % d = 0
         /\ b % d = 0
         /\ \A e \in (d + 1)..(IF a < b THEN a ELSE b) : ~(a % e = 0 /\ b % e = 0)

\* A JavaScript number n/d held as the reduced fraction <<n, d>>.
Ratio(n, d) == LET g == Gcd(n, d) IN IF n = 0 THEN <<0, 1>> ELSE <<n \div g, d \div g>>

JsNum(n)    == [t |-> "number", v |-> <<n, 1>>]
JsFrac(n, d) == [t |-> "number", v |-> Ratio(n, d)]
JsStr(s)    == [t |-> "string", v |-> s]
JsDec(n)    == [t |-> "Decimal", v |-> <<n, 1>>]
JsArr(a)    == [t |-> "array", v |-> a]
JsObj(f)    == [t |-> "object", v |-> f]

\* (a / b) * 100 of plant.repository.ts, guarded by `b > 0 ? ... : 0`.
Percent(a, b) == IF b > 0 THEN JsFrac(a * 100, b) ELSE JsNum(0)

RECURSIVE ToJson(_)
\* The tree JSON.stringify writes for a value: a Prisma Decimal becomes the
\* string of its digits (Decimal.prototype.toJSON), containers are mapped.
ToJson(v) ==
  CASE v.t = "Decimal" -> JsStr(NumChars(v.v[1]))
    [] v.t = "array"   -> JsArr([i \in DOMAIN v.v |-> ToJson(v.v[i])])
    [] v.t = "object"  -> JsObj([i \in DOMAIN v.v |-> <<v.v[i][1], ToJson(v.v[i][2])>>])
    [] OTHER           -> v

\* JSON.stringify(value): the text, held as the tree it denotes.
JSONstringify(v) == [json |-> ToJson(v)]

\* JSON.parse(text): plain numbers, strings, arrays and objects.
JSONparse(text) == text.json

\* ------------------------------------------------------------------ the store
\* states / plants are tables with SERIAL ids: row i of the sequence has id i.
\* gens is plant_generations, mv is the materialized view state_generation_mv.
VARIABLES states, plants, gens, nextGenId, mv

storeVars == <<states, plants, gens, nextGenId>>

\* Variant for C22: a lookup that never reports an unknown state.
StateIdAlways(sts, code) ==
  IF \E i \in DOMAIN sts : sts[i].code = code
  THEN CHOOSE i \in DOMAIN sts : sts[i].code = code
  ELSE 1

StateIdOf(sts, code) ==
  IF \E i \in DOMAIN sts : sts[i].code = code
  THEN CHOOSE i \in DOMAIN sts : sts[i].code = code
  ELSE 0

\* Variant for C18: the plant upsert never finds the row.
PlantIdNever(pls, name, stateId) == 0

\* where: { name_stateId: { name, stateId } }: the id of the plant, 0 if none.
PlantIdOf(pls, name, stateId) ==
  IF \E i \in DOMAIN pls : pls[i].name = name /\ pls[i].stateId = stateId
  THEN CHOOSE i \in DOMAIN pls : pls[i].name = name /\ pls[i].stateId = stateId
  ELSE 0

RECURSIVE SumNet(_)
SumNet(G) ==
  IF G = {} THEN 0
  ELSE LET g == CHOOSE x \in G : TRUE IN g.netGeneration + SumNet(G \ {g})

\* SELECT p.state_id, pg.year, SUM(pg.net_generation) ... GROUP BY p.state_id, pg.year
MvOf(pls, G) ==
  { [state_id |-> sid, year |-> y,
     total_generation |-> SumNet({g \in G : pls[g.plantId].stateId = sid /\ g.year = y})] :
      <<sid, y>> \in { <<pls[g.plantId].stateId, g.year>> : g \in G } }

RECURSIVE SumTotal(_)
SumTotal(M) ==
  IF M = {} THEN 0
  ELSE LET m == CHOOSE x \in M : TRUE IN m.total_generation + SumTotal(M \ {m})

\* ORDER BY net_generation DESC; rows with equal values keep ascending id order.
RECURSIVE OrderGens(_)
OrderGens(G) ==
  IF G = {} THEN <<>>
  ELSE LET first == CHOOSE r \in G :
                      \A o \in G : \/ o.netGeneration < r.netGeneration
                                    \/ (o.netGeneration = r.netGeneration /\ r.id <= o.id)
       IN <<first>> \o OrderGens(G \ {first})

\* ORDER BY total_generation DESC; equal totals keep ascending state_id order.
RECURSIVE OrderTotals(_)
OrderTotals(M) ==
  IF M = {} THEN <<>>
  ELSE LET first == CHOOSE r \in M :
                      \A o \in M : \/ o.total_generation < r.total_generation
                                    \/ (o.total_generation = r.total_generation
                                        /\ r.state_id <= o.state_id)
       IN <<first>> \o OrderTotals(M \ {first})

\* Variant for C24: a findMany without `take`.
TakeAll(s, n) == s

Take(s, n) == SubSeq(s, 1, IF Len(s) < n THEN Len(s) ELSE n)

\* The tables as one value, as a query sees them.
Db == [states |-> states, plants |-> plants, gens |-> gens, mv |-> mv]

\* ------------------------------------------------------------- outcomes
Ok(v)         == [kind |-> "ok", value |-> v, msg |-> "none"]
NotFound(m)   == [kind |-> "NotFound", value |-> Null, msg |-> m]
\* Variant for C21: a catch that answers a store failure with an empty list.
StoreErrorAsEmpty == Ok(JsArr(<<>>))

StoreError    == [kind |-> "StoreError", value |-> Null, msg |-> "store query failed"]
CacheError    == [kind |-> "CacheError", value |-> Null, msg |-> "cache call failed"]

\* obj.name of a JavaScript object.
Field(obj, name) ==
  LET i == CHOOSE j \in DOMAIN obj.v : obj.v[j][1] = name IN obj.v[i][2]

\* ------------------------------------------------- Query Engine (PlantRepository)
StateRowJs(db, sid) ==
  JsObj(<< <<"id", JsNum(sid)>>,
           <<"code", JsStr(db.states[sid].code)>>,
           <<"name", JsStr(db.states[sid].name)>> >>)

\* Variant for C27: a lookup that falls back to the sum of the facts.
StateTotalFromFacts(db, sid, y) ==
  IF \E m \in db.mv : m.state_id = sid /\ m.year = y
  THEN (CHOOSE m \in db.mv : m.state_id = sid /\ m.year = y).total_generation
  ELSE SumNet({ g \in db.gens : db.plants[g.plantId].stateId = sid /\ g.year = y })

\* stateTotalMap.get(`${stateId}_${year}`) || 0
StateTotal(db, sid, y) ==
  IF \E m \in db.mv : m.state_id = sid /\ m.year = y
  THEN (CHOOSE m \in db.mv : m.state_id = sid /\ m.year = y).total_generation
  ELSE 0

getTopNPlants(db, top, stateCode, year) ==
  LET stateId == IF stateCode # <<>> THEN StateIdOf(db.states, stateCode) ELSE 0 IN
  IF stateCode # <<>> /\ stateId = 0
  THEN NotFound("State with code not found")
  ELSE
    LET rows == { g \in db.gens :
                    /\ (year # 0 => g.year = year)
                    /\ (stateId # 0 => db.plants[g.plantId].stateId = stateId) }
        pgs  == Take(OrderGens(rows), top)
    IN Ok(JsArr([i \in DOMAIN pgs |->
         LET pg  == pgs[i]
             sid == db.plants[pg.plantId].stateId
         IN JsObj(<< <<"id", JsNum(pg.id)>>,
                     <<"plantId", JsNum(pg.plantId)>>,
                     <<"name", JsStr(db.plants[pg.plantId].name)>>,
                     <<"state", StateRowJs(db, sid)>>,
                     <<"year", JsNum(pg.year)>>,
                     <<"netGeneration", JsNum(pg.netGeneration)>>,
                     <<"percentOfState",
                       Percent(pg.netGeneration, StateTotal(db, sid, pg.year))>>,
                     <<"rank", JsNum(i)>> >>)]))

\* COUNT(DISTINCT p.id) of the plants of a state with a fact in `year`.
PlantCount(db, sid, year) ==
  Cardinality({ g.plantId : g \in { x \in db.gens :
                  x.year = year /\ db.plants[x.plantId].stateId = sid } })

getStatesSummary(db, year) ==
  LET totals   == OrderTotals({ m \in db.mv : m.year = year /\ m.state_id \in DOMAIN db.states })
      national == SumTotal({ m \in db.mv : m.year = year /\ m.state_id \in DOMAIN db.states })
  IN Ok(JsArr([i \in DOMAIN totals |->
       LET st == totals[i] IN
       JsObj(<< <<"stateId", JsNum(st.state_id)>>,
                <<"code", JsStr(db.states[st.state_id].code)>>,
                <<"name", JsStr(db.states[st.state_id].name)>>,
                <<"year", JsNum(st.year)>>,
                <<"totalGeneration", JsNum(st.total_generation)>>,
                <<"percentOfNational", Percent(st.total_generation, national)>>,
                <<"plantCount", JsNum(PlantCount(db, st.state_id, year))>> >>)]))

\* Variant for C23: the "no data" check reads the facts, not the aggregate row.
getStateDetailByFacts(db, stateCode, year) ==
  LET sid == StateIdOf(db.states, stateCode) IN
  IF sid = 0 THEN NotFound("State with code not found")
  ELSE IF ~ \E g \in db.gens : db.plants[g.plantId].stateId = sid /\ g.year = year
  THEN NotFound("No data found for state in year")
  ELSE
    LET total    == StateTotal(db, sid, year)
        national == SumTotal({ m \in db.mv : m.year = year })
    IN Ok(JsObj(<< <<"state", StateRowJs(db, sid)>>,
                   <<"year", JsNum(year)>>,
                   <<"totalGeneration", JsNum(total)>>,
                   <<"percentOfNational", Percent(total, national)>>,
                   <<"topPlants", getTopNPlants(db, DETAIL_TOP, stateCode, year).value>>,
                   <<"plantCount", JsNum(PlantCount(db, sid, year))>> >>))

getStateDetail(db, stateCode, year) ==
  LET sid == StateIdOf(db.states, stateCode) IN
  IF sid = 0 THEN NotFound("State with code not found")
  ELSE IF ~ \E m \in db.mv : m.state_id = sid /\ m.year = year
  THEN NotFound("No data found for state in year")
  ELSE
    LET total    == StateTotal(db, sid, year)
        national == SumTotal({ m \in db.mv : m.year = year })
    IN Ok(JsObj(<< <<"state", StateRowJs(db, sid)>>,
                   <<"year", JsNum(year)>>,
                   <<"totalGeneration", JsNum(total)>>,
                   <<"percentOfNational", Percent(total, national)>>,
                   <<"topPlants", getTopNPlants(db, DETAIL_TOP, stateCode, year).value>>,
                   <<"plantCount", JsNum(PlantCount(db, sid, year))>> >>))

\* generations: { orderBy: { year: "desc" } }; (plant, year) is unique.
RECURSIVE OrderByYear(_)
OrderByYear(G) ==
  IF G = {} THEN <<>>
  ELSE LET first == CHOOSE r \in G : \A o \in G : o.year <= r.year
       IN <<first>> \o OrderByYear(G \ {first})

getPlantById(db, plantId) ==
  IF plantId \notin DOMAIN db.plants THEN NotFound("Plant with ID not found")
  ELSE
    LET p  == db.plants[plantId]
        gs == OrderByYear({ g \in db.gens : g.plantId = plantId })
    IN Ok(JsObj(<< <<"id", JsNum(plantId)>>,
                   <<"name", JsStr(p.name)>>,
                   <<"stateId", JsNum(p.stateId)>>,
                   <<"state", StateRowJs(db, p.stateId)>>,
                   <<"generations", JsArr([i \in DOMAIN gs |->
                       JsObj(<< <<"id", JsNum(gs[i].id)>>,
                                <<"plantId", JsNum(gs[i].plantId)>>,
                                <<"year", JsNum(gs[i].year)>>,
                                <<"netGeneration", JsDec(gs[i].netGeneration)>> >>)])>> >>))

\* ------------------------------------------------------------ cache keys
\* The string literals of the key templates and of the invalidated prefixes.
S_plants_top == <<"p", "l", "a", "n", "t", "s", ":", "t", "o", "p", ":">>
S_plant == <<"p", "l", "a", "n", "t", ":">>
S_states_summary == <<"s", "t", "a", "t", "e", "s", ":", "s", "u", "m", "m", "a", "r", "y", ":">>
S_state == <<"s", "t", "a", "t", "e", ":">>
S_states == <<"s", "t", "a", "t", "e", "s", ":">>
S_top == <<"t", "o", "p", ":">>
S_states_all == <<"s", "t", "a", "t", "e", "s", ":", "a", "l", "l">>
S_generation == <<"g", "e", "n", "e", "r", "a", "t", "i", "o", "n", ":">>
S_all == <<"a", "l", "l">>
S_top_plants == <<"t", "o", "p", "-", "p", "l", "a", "n", "t", "s", ":">>
S_states_generation_year == <<"s", "t", "a", "t", "e", "s", ":", "g", "e", "n", "e", "r", "a", "t", "i", "o", "n", ":", "y", "e", "a", "r", ":">>
S_statistics == <<"s", "t", "a", "t", "i", "s", "t", "i", "c", "s">>

\* `plants:top:${query.top || 10}:${query.state || "ALL"}:${query.year || "ALL"}`
\* Variant for C19: a key without the year.
TopPlantsKeyNoYear(top, state, year) ==
  S_plants_top \o NumChars(IF top # 0 THEN top ELSE DEFAULT_TOP) \o Colon
    \o (IF state # <<>> THEN state ELSE ALL)

TopPlantsKey(top, state, year) ==
  S_plants_top \o NumChars(IF top # 0 THEN top ELSE DEFAULT_TOP) \o Colon
    \o (IF state # <<>> THEN state ELSE ALL) \o Colon
    \o (IF year # 0 THEN NumChars(year) ELSE ALL)

\* Variant for C20: one key for every plant.
PlantKeyShared(plantId) == S_plant

\* `plant:${plantId}`
PlantKey(plantId) == S_plant \o NumChars(plantId)

\* `states:summary:${year}`
SummaryKey(year) == S_states_summary \o NumChars(year)

\* `state:${stateCode.toUpperCase()}:${year}:top:${topPlants}`
DetailKey(stateCode, year, topPlants) ==
  S_state \o toUpperCase(stateCode) \o Colon \o NumChars(year) \o Colon
    \o S_top \o NumChars(topPlants)

\* StateRepository keys.
FindAllKey == S_states_all
FindByCodeKey(code) == S_state \o code
GenerationByStateKey(code, year) ==
  S_state \o code \o Colon \o S_generation \o (IF year # 0 THEN NumChars(year) ELSE S_all)
TopPlantsByStateKey(code, limit, year) ==
  S_state \o code \o Colon \o S_top_plants
    \o (IF year # 0 THEN NumChars(year) ELSE S_all) \o Colon \o NumChars(limit)
GenerationByYearKey(year) == S_states_generation_year \o NumChars(year)
StateStatisticsKey(code) == S_state \o code \o Colon \o S_statistics

\* ------------------------------------------------------------ the cache
\* cache: the Redis keyspace, key -> [v: the stored text, ttl: seconds].
\* redisMode: "up" (every call succeeds), "down" (every call fails) or
\* "flaky" (a call may fail), or "paged" (every call succeeds and the keyspace
\* is large enough for SCAN to need several calls).  faults: how many more
\* call failures the environment may inject (store queries, and cache calls
\* while flaky).  A further mode, "invalid", is a configuration the ioredis
\* constructor rejects.
\* boot: the Redis client of the process, [client: "none", "real" (ioredis) or
\* "mock", status: "start", "connecting", "ready" or "end", times: the
\* reconnection attempts].
VARIABLES cache, redisMode, faults, boot

\* A connected ioredis client.
Ready == [client |-> "real", status |-> "ready", times |-> 0]

Absent == [json |-> Null]

\* redis.get(key): the stored text, or null.
RedisGet(c, key) == IF key \in DOMAIN c THEN c[key].v ELSE Absent

\* Variant for C30: a setex that stores a thousand times the seconds given.
RedisSetexScaled(c, key, ttl, text) ==
  [k \in DOMAIN c \cup {key} |-> IF k = key THEN [v |-> text, ttl |-> ttl * 1000] ELSE c[k]]

\* redis.setex(key, ttl, text): overwrites unconditionally.
RedisSetex(c, key, ttl, text) ==
  [k \in DOMAIN c \cup {key} |-> IF k = key THEN [v |-> text, ttl |-> ttl] ELSE c[k]]

\* redis.del(...keys)
RedisDel(c, keys) == [k \in DOMAIN c \ keys |-> c[k]]

\* Variant for C13: a mock whose get reads the keyspace.
ClientGetReads(c, key) == RedisGet(c, key)

\* get of the client at hand; the mock: `get: async () => null`.
ClientGet(c, key) == IF boot.client = "mock" THEN Absent ELSE RedisGet(c, key)

\* setex of the client at hand; the mock: `setex: async () => "OK"`.
ClientSetex(c, key, ttl, text) ==
  IF boot.client = "mock" THEN c ELSE RedisSetex(c, key, ttl, text)

\* Whether a cache call made now fails (TRUE) or succeeds (FALSE): the mock
\* never rejects, a client that gave up reconnecting rejects every command.
CacheOutcomes ==
  IF boot.client = "mock" THEN {FALSE}
  ELSE IF boot.status = "end" \/ redisMode = "down" THEN {TRUE}
  ELSE IF redisMode = "flaky" /\ faults > 0 THEN {TRUE, FALSE}
  ELSE {FALSE}

\* Whether a store query made now fails.
StoreOutcomes == IF faults > 0 THEN {TRUE, FALSE} ELSE {FALSE}

\* A failure is charged to the budget unless the cache is down for good.
Charge(fail) == IF fail /\ redisMode # "down" THEN faults - 1 ELSE faults
ChargeStore(fail) == IF fail THEN faults - 1 ELSE faults

\* `if (cached)`: a non-null text (a JSON text is never the empty string).
\* Variant for C4: `if (cached)` never taken.
CacheHitNever(cached) == FALSE

CacheHit(cached) == cached # Absent

\* ------------------------------------------------ the cached service layer
\* One API request at a time walks get -> engine -> setex.  req is the
\* request in progress, done the responses so far, engineCalls the number
\* of PlantRepository method calls made so far.
VARIABLES req, done, engineCalls

\* The ingestion script's variables, described with the script below.
VARIABLES pc, source, exitCode, redisAvailable, log, scan, warm

pipeVars   == <<pc, source, exitCode, redisAvailable, log, scan, warm>>
clientVars == <<req, done, engineCalls>>

Query(op, top, state, year, id) ==
  [op |-> op, top |-> top, state |-> state, year |-> year, id |-> id]

\* Validated parameter tuples; 0 and <<>> stand for an absent parameter.
Queries ==
  { Query("getTopPlants", 0, <<>>, 0, 0),
    Query("getTopPlants", DEFAULT_TOP, <<>>, 0, 0),
    Query("getTopPlants", 1, TX, CURRENT_YEAR, 0),
    Query("getPlantById", 0, <<>>, 0, 1),
    Query("getPlantById", 0, <<>>, 0, 9),
    Query("getStatesSummary", 0, <<>>, 0, 0),
    Query("getStateDetail", 0, TX, 0, 0),
    Query("getStateDetail", 20, tx, CURRENT_YEAR, 0),
    Query("getStateDetail", 0, FL, 0, 0),
    Query("getStateDetail", 0, ZZ, 0, 0) }

YearOf(q) == IF q.year # 0 THEN q.year ELSE DEFAULT_YEAR
TopOf(q)  == IF q.top # 0 THEN q.top ELSE DEFAULT_TOP

\* The cacheKey each service method builds.
CacheKeyOf(q) ==
  CASE q.op = "getTopPlants"     -> TopPlantsKey(q.top, q.state, q.year)
    [] q.op = "getPlantById"     -> PlantKey(q.id)
    [] q.op = "getStatesSummary" -> SummaryKey(YearOf(q))
    [] q.op = "getStateDetail"   -> DetailKey(q.state, YearOf(q), TopOf(q))

\* plants.map((plant, index) => ({ ..., rank: index + 1 }))
PlantsServiceMap(arr) ==
  JsArr([i \in DOMAIN arr.v |->
    JsObj(<< <<"id", Field(arr.v[i], "id")>>,
             <<"plantId", Field(arr.v[i], "plantId")>>,
             <<"name", Field(arr.v[i], "name")>>,
             <<"state", Field(arr.v[i], "state")>>,
             <<"year", Field(arr.v[i], "year")>>,
             <<"netGeneration", Field(arr.v[i], "netGeneration")>>,
             <<"percentOfState", Field(arr.v[i], "percentOfState")>>,
             <<"rank", JsNum(i)>> >>)])

\* states.map((state, index) => ({ ..., rank: index + 1 }))
StatesServiceMap(arr) ==
  JsArr([i \in DOMAIN arr.v |->
    JsObj(<< <<"stateId", Field(arr.v[i], "stateId")>>,
             <<"code", Field(arr.v[i], "code")>>,
             <<"name", Field(arr.v[i], "name")>>,
             <<"year", Field(arr.v[i], "year")>>,
             <<"totalGeneration", Field(arr.v[i], "totalGeneration")>>,
             <<"percentOfNational", Field(arr.v[i], "percentOfNational")>>,
             <<"plantCount", Field(arr.v[i], "plantCount")>>,
             <<"rank", JsNum(i)>> >>)])

\* The result object of StatesService.getStateDetail.
StateDetailMap(detail, top) ==
  JsObj(<< <<"state", Field(detail, "state")>>,
           <<"year", Field(detail, "year")>>,
           <<"totalGeneration", Field(detail, "totalGeneration")>>,
           <<"percentOfNational", Field(detail, "percentOfNational")>>,
           <<"plantCount", Field(detail, "plantCount")>>,
           <<"topPlants", JsArr([i \in DOMAIN top.v |->
               JsObj(<< <<"id", Field(top.v[i], "id")>>,
                        <<"plantId", Field(top.v[i], "plantId")>>,
                        <<"name", Field(top.v[i], "name")>>,
                        <<"year", Field(top.v[i], "year")>>,
                        <<"netGeneration", Field(top.v[i], "netGeneration")>>,
                        <<"percentOfState", Field(top.v[i], "percentOfState")>>,
                        <<"rank", JsNum(i)>> >>)])>> >>)

\* The part of a service method between the cache miss and the setex: the
\* repository calls and the mapping.  [out: outcome, calls: repository calls made]
ServiceCompute(q, db) ==
  CASE q.op = "getTopPlants" ->
         LET r == getTopNPlants(db, TopOf(q), q.state, q.year) IN
         [out |-> IF r.kind = "ok" THEN Ok(PlantsServiceMap(r.value)) ELSE r, calls |-> 1]
    [] q.op = "getPlantById" ->
         [out |-> getPlantById(db, q.id), calls |-> 1]
    [] q.op = "getStatesSummary" ->
         LET r == getStatesSummary(db, YearOf(q)) IN
         [out |-> Ok(StatesServiceMap(r.value)), calls |-> 1]
    [] q.op = "getStateDetail" ->
         LET d == getStateDetail(db, toUpperCase(q.state), YearOf(q)) IN
         IF d.kind # "ok" THEN [out |-> d, calls |-> 1]
         ELSE LET t == getTopNPlants(db, TopOf(q), toUpperCase(q.state), YearOf(q)) IN
              [out |-> IF t.kind = "ok" THEN Ok(StateDetailMap(d.value, t.value)) ELSE t,
               calls |-> 2]

Idle == [pc |-> "idle", q |-> Query("none", 0, <<>>, 0, 0), key |-> <<>>,
         cached |-> Absent, result |-> Null, calls |-> 0]

\* What a finished request leaves in `done`.
Response(r, out, hit) ==
  [q |-> r.q, key |-> r.key, out |-> out, hit |-> hit, cached |-> r.cached, calls |-> r.calls]

\* A controller calls a service method with validated parameters.
Request(q) ==
  /\ req.pc = "idle"
  /\ boot.client # "none"
  /\ Len(done) < MaxRequests
  /\ req' = [Idle EXCEPT !.pc = "get", !.q = q, !.key = CacheKeyOf(q)]
  /\ UNCHANGED <<done, engineCalls, cache, redisMode, boot, faults, storeVars, mv, pipeVars>>

\* const cached = await this.redis.get(cacheKey); if (cached) return JSON.parse(cached);
\* a rejected get is caught, logged and rethrown.
ServiceGet ==
  /\ req.pc = "get"
  /\ boot.status \in {"ready", "end"}
  /\ \E fail \in CacheOutcomes :
       /\ faults' = Charge(fail)
       /\ IF fail
          THEN /\ done' = Append(done, Response(req, CacheError, FALSE))
               /\ req' = Idle
          ELSE LET cached == ClientGet(cache, req.key) IN
               IF CacheHit(cached)
               THEN /\ done' = Append(done,
                                  Response([req EXCEPT !.cached = cached],
                                           Ok(JSONparse(cached)), TRUE))
                    /\ req' = Idle
               ELSE /\ req' = [req EXCEPT !.pc = "engine"]
                    /\ done' = done
  /\ UNCHANGED <<engineCalls, cache, redisMode, boot, storeVars, mv, pipeVars>>

\* Variant for C29: a service that goes on to the setex after an error.
ReachesSetexAlways(out) == TRUE

\* Whether control reaches the setex: an exception of the repository call
\* (or `if (!plant) throw`) leaves the try block before it.
ReachesSetex(out) == out.kind = "ok"

\* The repository calls after a miss; NotFound and store errors are rethrown.
ServiceEngine ==
  /\ req.pc = "engine"
  /\ \E fail \in StoreOutcomes :
       /\ faults' = ChargeStore(fail)
       /\ IF fail
          THEN /\ engineCalls' = engineCalls + 1
               /\ done' = Append(done, Response([req EXCEPT !.calls = 1], StoreError, FALSE))
               /\ req' = Idle
          ELSE LET c == ServiceCompute(req.q, Db) IN
               /\ engineCalls' = engineCalls + c.calls
               /\ IF ReachesSetex(c.out)
                  THEN /\ req' = [req EXCEPT !.pc = "setex", !.result = c.out.value,
                                              !.calls = c.calls]
                       /\ done' = done
                  ELSE /\ done' = Append(done,
                                     Response([req EXCEPT !.calls = c.calls], c.out, FALSE))
                       /\ req' = Idle
  /\ UNCHANGED <<cache, redisMode, boot, storeVars, mv, pipeVars>>

\* await this.redis.setex(cacheKey, this.CACHE_TTL, JSON.stringify(result)); return result;
\* a rejected setex is caught, logged and rethrown.
ServiceSetex ==
  /\ req.pc = "setex"
  /\ boot.status \in {"ready", "end"}
  /\ \E fail \in CacheOutcomes :
       /\ faults' = Charge(fail)
       /\ IF fail
          THEN /\ done' = Append(done, Response(req, CacheError, FALSE))
               /\ cache' = cache
          ELSE /\ cache' = ClientSetex(cache, req.key, CACHE_TTL, JSONstringify(req.result))
               /\ done' = Append(done, Response(req, Ok(req.result), FALSE))
  /\ req' = Idle
  /\ UNCHANGED <<engineCalls, redisMode, boot, storeVars, mv, pipeVars>>

\* ------------------------------------- StateRepository (read-through cache)
Alphabet == <<"A", "C", "F", "L", "T", "X", "Z">>
CharRank(c) == CHOOSE i \in DOMAIN Alphabet : Alphabet[i] = c

\* orderBy: { code: "asc" } on two-letter codes.
CodeLess(a, b) ==
  \/ CharRank(a[1]) < CharRank(b[1])
  \/ (a[1] = b[1] /\ CharRank(a[2]) < CharRank(b[2]))

RECURSIVE OrderByCode(_, _)
OrderByCode(sts, ids) ==
  IF ids = {} THEN <<>>
  ELSE LET first == CHOOSE i \in ids :
                      \A o \in ids : o = i \/ CodeLess(sts[i].code, sts[o].code)
       IN <<first>> \o OrderByCode(sts, ids \ {first})

\* Every cache call of a repository method sits in its own try/catch: a
\* failed get is a miss, a failed setex writes nothing.  `value` is what the
\* store query returns; a null value is returned without being cached.
ReadThrough(c, key, value, cacheFails) ==
  LET cached == IF cacheFails THEN Absent ELSE RedisGet(c, key) IN
  IF CacheHit(cached)
  THEN [cache |-> c, value |-> JSONparse(cached), hit |-> TRUE]
  ELSE [cache |-> IF cacheFails \/ value = Null THEN c
                  ELSE RedisSetex(c, key, CACHE_TTL, JSONstringify(value)),
        value |-> value, hit |-> FALSE]

\* prisma.state.findMany({ select: { id, code, name }, orderBy: { code: "asc" } })
FindAllRows(db) ==
  LET ids == OrderByCode(db.states, DOMAIN db.states) IN
  JsArr([i \in DOMAIN ids |-> StateRowJs(db, ids[i])])

PlantsOfState(db, sid) == { p \in DOMAIN db.plants : db.plants[p].stateId = sid }

\* prisma.state.findUnique({ where: { code }, include: { _count: { plants } } })
FindByCodeRow(db, code) ==
  LET sid == StateIdOf(db.states, code) IN
  IF sid = 0 THEN Null
  ELSE JsObj(<< <<"id", JsNum(sid)>>,
                <<"code", JsStr(db.states[sid].code)>>,
                <<"name", JsStr(db.states[sid].name)>>,
                <<"_count", JsObj(<< <<"plants",
                               JsNum(Cardinality(PlantsOfState(db, sid)))>> >>)>> >>)

RECURSIVE OrderMvByYear(_)
OrderMvByYear(M) ==
  IF M = {} THEN <<>>
  ELSE LET first == CHOOSE r \in M : \A o \in M : o.year <= r.year
       IN <<first>> \o OrderMvByYear(M \ {first})

\* SELECT state_id, year, total_generation FROM state_generation_mv
\* WHERE state_id = (SELECT id FROM states WHERE code = ...) ORDER BY year DESC
GenerationByStateRows(db, code) ==
  LET sid  == StateIdOf(db.states, code)
      rows == OrderMvByYear({ m \in db.mv : m.state_id = sid })
  IN JsArr([i \in DOMAIN rows |->
       JsObj(<< <<"state_id", JsNum(rows[i].state_id)>>,
                <<"year", JsNum(rows[i].year)>>,
                <<"total_generation", JsDec(rows[i].total_generation)>> >>)])

\* { state, totalPlants: state._count.plants, totalGeneration: generation[0]?.total || 0 }
StateStatisticsRow(db, code) ==
  LET sid  == StateIdOf(db.states, code)
      rows == { m \in db.mv : m.state_id = sid }
  IN IF sid = 0 THEN Null
     ELSE JsObj(<< <<"state", FindByCodeRow(db, code)>>,
                   <<"totalPlants", JsNum(Cardinality(PlantsOfState(db, sid)))>>,
                   <<"totalGeneration",
                     IF rows = {} THEN JsNum(0) ELSE JsDec(SumTotal(rows))>> >>)

\* orderBy: { generations: { _count: "desc" } }; equal counts keep id order.
RECURSIVE OrderByGenCount(_, _)
OrderByGenCount(db, P) ==
  IF P = {} THEN <<>>
  ELSE LET n(p)  == Cardinality({ g \in db.gens : g.plantId = p })
           first == CHOOSE p \in P :
                      \A o \in P : n(o) < n(p) \/ (n(o) = n(p) /\ p <= o)
       IN <<first>> \o OrderByGenCount(db, P \ {first})

\* prisma.plant.findMany({ where: { state: { code } }, include: { generations:
\* { orderBy: { netGeneration: "desc" }, take: 1 }, state }, take: limit })
TopPlantsByStateRows(db, code, limit) ==
  LET sid == StateIdOf(db.states, code)
      ps  == Take(OrderByGenCount(db, PlantsOfState(db, sid)), limit)
  IN JsArr([i \in DOMAIN ps |->
       LET gs == Take(OrderGens({ g \in db.gens : g.plantId = ps[i] }), 1) IN
       JsObj(<< <<"id", JsNum(ps[i])>>,
                <<"name", JsStr(db.plants[ps[i]].name)>>,
                <<"stateId", JsNum(sid)>>,
                <<"generations", JsArr([j \in DOMAIN gs |->
                    JsObj(<< <<"id", JsNum(gs[j].id)>>,
                             <<"plantId", JsNum(gs[j].plantId)>>,
                             <<"year", JsNum(gs[j].year)>>,
                             <<"netGeneration", JsDec(gs[j].netGeneration)>> >>)])>>,
                <<"state", JsObj(<< <<"code", JsStr(db.states[sid].code)>>,
                                    <<"name", JsStr(db.states[sid].name)>> >>)>> >>)])

\* SELECT mv.*, s.code, s.name FROM state_generation_mv mv JOIN states s ...
\* WHERE mv.year = ... ORDER BY mv.total_generation DESC
GenerationByYearRows(db, year) ==
  LET rows == OrderTotals({ m \in db.mv : m.year = year /\ m.state_id \in DOMAIN db.states }) IN
  JsArr([i \in DOMAIN rows |->
    JsObj(<< <<"state_id", JsNum(rows[i].state_id)>>,
             <<"year", JsNum(rows[i].year)>>,
             <<"total_generation", JsDec(rows[i].total_generation)>>,
             <<"state_code", JsStr(db.states[rows[i].state_id].code)>>,
             <<"state_name", JsStr(db.states[rows[i].state_id].name)>> >>)])

\* -------------------------------------------------- CacheWarmingService
\* The five repository calls of warmStateCache, in order: key and store rows.
WarmCalls(db, code) ==
  << <<FindByCodeKey(code), FindByCodeRow(db, code)>>,
     <<GenerationByStateKey(code, 0), GenerationByStateRows(db, code)>>,
     <<StateStatisticsKey(code), StateStatisticsRow(db, code)>>,
     <<TopPlantsByStateKey(code, WARM_TOP_A, 0), TopPlantsByStateRows(db, code, WARM_TOP_A)>>,
     <<TopPlantsByStateKey(code, WARM_TOP_B, 0), TopPlantsByStateRows(db, code, WARM_TOP_B)>> >>

\* Calls k.. of the list against cache c; the store query of call failAt
\* raises (0: none does).  A call that hits the cache makes no store query.
RECURSIVE RunCalls(_, _, _, _, _)
RunCalls(c, calls, k, failAt, cacheFails) ==
  IF k > Len(calls) THEN [cache |-> c, failed |-> FALSE]
  ELSE LET r == ReadThrough(c, calls[k][1], calls[k][2], cacheFails) IN
       IF k = failAt /\ ~r.hit THEN [cache |-> c, failed |-> TRUE]
       ELSE RunCalls(r.cache, calls, k + 1, failAt, cacheFails)

\* warmStateCache(stateCode): the try block and its catch, which logs and
\* does not rethrow.  threw: whether the returned promise rejects.
warmStateCache(db, c, code, failAt, cacheFails) ==
  LET r == RunCalls(c, WarmCalls(db, code), 1, failAt, cacheFails) IN
  [cache |-> r.cache, failed |-> r.failed, threw |-> FALSE]

\* Variant for C8: a slice that starts one element late.
BatchSkipsFirst(n, i) == { j \in 1..n : i + 1 < j /\ j <= i + CONCURRENCY_LIMIT }

\* states.slice(i, i + CONCURRENCY_LIMIT), as the set of 1-based positions.
Batch(n, i) == { j \in 1..n : i < j /\ j <= i + CONCURRENCY_LIMIT }

RECURSIVE OrderYearsDesc(_)
OrderYearsDesc(Y) ==
  IF Y = {} THEN <<>>
  ELSE LET first == CHOOSE y \in Y : \A o \in Y : o <= y
       IN <<first>> \o OrderYearsDesc(Y \ {first})

\* SELECT DISTINCT year FROM plant_generations ORDER BY year DESC LIMIT count
RecentYears(db, count) == Take(OrderYearsDesc({ g.year : g \in db.gens }), count)

\* warmYearData(years): one getGenerationByYear per year, each in its own
\* try/catch; the store query for position failAt raises (0: none does).
RECURSIVE warmYearData(_, _, _, _, _, _)
warmYearData(db, c, years, k, failAt, cacheFails) ==
  IF k > Len(years) THEN c
  ELSE LET r == ReadThrough(c, GenerationByYearKey(years[k]),
                            GenerationByYearRows(db, years[k]), cacheFails)
       IN warmYearData(db, IF k = failAt /\ ~r.hit THEN c ELSE r.cache,
                       years, k + 1, failAt, cacheFails)

\* ----------------------------------------------------- the ingestion script
\* pc: where main()/ingestData() stands.  source: the parsed sheet.  log: the
\* milestones the script prints.  exitCode: -1 while running.  scan: the two
\* deleteByPrefix calls of deleteByPrefixes.  warm: warmAllStates' locals.

RowNames  == { <<"S", "T", "P">>, <<"N", "E", "W">> }
RowStates == { TX, FL }
\* 40 is more than the seeded total of a state; 0 is what a blank or
\* non-numeric cell becomes (isNaN(parsed) ? 0 : parsed), kept to one row.
RowNets   == { 0, 40 }
Rows == { r \in [plantName : RowNames, stateCode : RowStates, netGeneration : RowNets] :
            r.netGeneration = 0 => (r.plantName = <<"N", "E", "W">> /\ r.stateCode = FL) }

RECURSIVE SeqsUpTo(_, _)
SeqsUpTo(S, n) ==
  IF n = 0 THEN { <<>> }
  ELSE LET shorter == SeqsUpTo(S, n - 1) IN
       shorter \cup { Append(q, x) : q \in { t \in shorter : Len(t) = n - 1 }, x \in S }

\* What readPlantSheet can return.
Sources == SeqsUpTo(Rows, MaxRows)

\* tx.state.upsert for each key of stateGenerationMap, in insertion order.
RECURSIVE UpsertStates(_, _, _)
UpsertStates(sts, rows, k) ==
  IF k > Len(rows) THEN sts
  ELSE UpsertStates(IF StateIdOf(sts, rows[k].stateCode) # 0 THEN sts
                    ELSE Append(sts, [code |-> rows[k].stateCode, name |-> rows[k].stateCode]),
                    rows, k + 1)

\* tx.plant.upsert then tx.plantGeneration.upsert for each row, as the single
\* connection of the interactive transaction executes them: one after another.
RECURSIVE UpsertPlants(_, _, _)
UpsertPlants(st, rows, k) ==
  IF k > Len(rows) THEN st
  ELSE
    LET row     == rows[k]
        stateId == StateIdOf(st.states, row.stateCode)
        known   == PlantIdOf(st.plants, row.plantName, stateId)
        pls     == IF known # 0 THEN st.plants
                   ELSE Append(st.plants, [name |-> row.plantName, stateId |-> stateId])
        plantId == IF known # 0 THEN known ELSE Len(pls)
        old     == { g \in st.gens : g.plantId = plantId /\ g.year = CURRENT_YEAR }
        gs      == IF old # {}
                   THEN { IF g \in old THEN [g EXCEPT !.netGeneration = row.netGeneration]
                          ELSE g : g \in st.gens }
                   ELSE st.gens \cup { [id |-> st.nextGenId, plantId |-> plantId,
                                        year |-> CURRENT_YEAR,
                                        netGeneration |-> row.netGeneration] }
    IN UpsertPlants([states |-> st.states, plants |-> pls, gens |-> gs,
                     nextGenId |-> IF old # {} THEN st.nextGenId ELSE st.nextGenId + 1],
                    rows, k + 1)

\* The body of prisma.$transaction: upsert states, deleteMany for the year,
\* upsert plants and generations.
Transaction(st, rows) ==
  UpsertPlants([states |-> UpsertStates(st.states, rows, 1),
                plants |-> st.plants,
                gens |-> { g \in st.gens : g.year # CURRENT_YEAR },
                nextGenId |-> st.nextGenId],
               rows, 1)

Store == [states |-> states, plants |-> plants, gens |-> gens, nextGenId |-> nextGenId]

\* The prefixes invalidateCache passes to deleteByPrefixes.
Prefixes == <<S_states, S_state>>

NoScan == [i \in DOMAIN Prefixes |->
            [pc |-> "idle", started |-> FALSE, remaining |-> {}, keys |-> {}, listed |-> 0,
             deleted |-> 0]]

NoWarm == [states |-> <<>>, i |-> 0, task |-> <<>>, attempts |-> <<>>, failed |-> {},
           count |-> 0, result |-> "none"]

\* main(): the Redis ping; its failure only clears redisAvailable.
Main ==
  /\ pc = "main"
  /\ \E fail \in CacheOutcomes :
       /\ faults' = Charge(fail)
       /\ redisAvailable' = ~fail
       /\ log' = Append(log, IF fail THEN "redis:unavailable" ELSE "redis:connected")
  /\ pc' = "read"
  /\ UNCHANGED <<source, exitCode, scan, warm, cache, redisMode, boot, storeVars, mv, clientVars>>

\* ingestData step 1-2: readPlantSheet and the in-memory aggregation.
ReadSheet ==
  /\ pc = "read"
  /\ \E rows \in Sources : source' = rows
  /\ pc' = "tx"
  /\ UNCHANGED <<exitCode, redisAvailable, log, scan, warm, cache, redisMode, boot, faults,
                 storeVars, mv, clientVars>>

\* How prisma.$transaction(...) may end: "committed"; "rejected", when a
\* statement outside the per-row try/catch fails or the timeout passes;
\* "aborted", when the database rejects a statement of a row (a value that
\* overflows DECIMAL(18,2), say): the catch around the row swallows the error,
\* PostgreSQL fails every later statement of the aborted transaction, those
\* errors are swallowed alike, the callback returns, and the COMMIT that
\* follows rolls back without an error.
TxOutcomes ==
  IF faults = 0 THEN {"committed"}
  ELSE IF source = <<>> THEN {"committed", "rejected"}
  ELSE {"committed", "rejected", "aborted"}

\* prisma.$transaction(...) and what follows it: a rejected transaction ends
\* the script with exit code 1, any other goes on to "Transaction committed".
IngestTransaction ==
  /\ pc = "tx"
  /\ \E outcome \in TxOutcomes :
       /\ faults' = ChargeStore(outcome # "committed")
       /\ IF outcome = "rejected"
          THEN /\ UNCHANGED storeVars
               /\ log' = Append(log, "tx:failed")
               /\ pc' = "exited"
               /\ exitCode' = 1
          ELSE IF outcome = "aborted"
          THEN /\ UNCHANGED storeVars
               /\ log' = log \o <<"tx:row-error", "tx:committed">>
               /\ pc' = "refresh"
               /\ exitCode' = exitCode
          ELSE LET st == Transaction(Store, source) IN
               /\ states' = st.states
               /\ plants' = st.plants
               /\ gens' = st.gens
               /\ nextGenId' = st.nextGenId
               /\ log' = Append(log, "tx:committed")
               /\ pc' = "refresh"
               /\ exitCode' = exitCode
  /\ UNCHANGED <<source, redisAvailable, scan, warm, cache, redisMode, boot, mv, clientVars>>

\* Variant for C7: a catch that logs and does not rethrow.
refreshSwallows(fail, pls, G, M) == [threw |-> FALSE, mv |-> M]

\* Variant for C16: a refresh that reports success and leaves the view alone.
refreshKeepsView(fail, pls, G, M) == [threw |-> fail, mv |-> M]

\* refreshMaterializedView(): REFRESH MATERIALIZED VIEW CONCURRENTLY; the
\* catch logs and rethrows.
refreshMaterializedView(fail, pls, G, M) ==
  [threw |-> fail, mv |-> IF fail THEN M ELSE MvOf(pls, G)]

\* ingestData step 4; a throw reaches main's catch: process.exit(1).
RefreshView ==
  /\ pc = "refresh"
  /\ \E fail \in StoreOutcomes :
       LET r == refreshMaterializedView(fail, plants, gens, mv) IN
       /\ faults' = ChargeStore(fail)
       /\ mv' = r.mv
       /\ log' = Append(log, IF fail THEN "refresh:failed" ELSE "refresh:ok")
       /\ IF r.threw
          THEN pc' = "exited" /\ exitCode' = 1
          ELSE pc' = "invalidate" /\ exitCode' = exitCode
  /\ UNCHANGED <<source, redisAvailable, scan, warm, cache, redisMode, boot, storeVars, clientVars>>

\* invalidateCache(): deleteByPrefixes starts one deleteByPrefix per prefix.
InvalidateCache ==
  /\ pc = "invalidate"
  /\ scan' = [i \in DOMAIN Prefixes |-> [NoScan[i] EXCEPT !.pc = "scan"]]
  /\ log' = Append(log, "invalidate:start")
  /\ pc' = "invalidating"
  /\ UNCHANGED <<source, exitCode, redisAvailable, warm, cache, redisMode, boot, faults,
                 storeVars, mv, clientVars>>

\* Variant for C10: a catch that rethrows, which ends main() with exit code 1.
invalidateCacheRethrows == [pc |-> "exited", exitCode |-> 1]

\* The catch of invalidateCache: "Don't throw".
invalidateCacheCatch == [pc |-> "warm", exitCode |-> -1]

\* Where ingestData stands once deleteByPrefix i has moved to sc[i]:
\* Promise.all rejects with the first rejection (the catch runs at once,
\* whatever the other call is doing) and resolves when every call is done.
AfterDelete(sc, i) ==
  IF pc # "invalidating" THEN [pc |-> pc, exitCode |-> exitCode, log |-> log]
  ELSE IF sc[i].pc = "failed"
  THEN [pc |-> invalidateCacheCatch.pc, exitCode |-> invalidateCacheCatch.exitCode,
        log |-> Append(log, "invalidate:failed")]
  ELSE IF \A j \in DOMAIN sc : sc[j].pc = "done"
  THEN [pc |-> "warm", exitCode |-> exitCode, log |-> Append(log, "invalidate:ok")]
  ELSE [pc |-> pc, exitCode |-> exitCode, log |-> log]

\* SCAN cursor MATCH pattern COUNT n: visits up to n keys not yet visited and
\* returns those that exist and match.  remaining = {} is cursor "0".
ScanChunk(remaining) ==
  IF Cardinality(remaining) <= SCAN_COUNT THEN remaining
  ELSE CHOOSE S \in SUBSET remaining : Cardinality(S) = SCAN_COUNT

\* The sets of keys one SCAN call may visit: COUNT is a hint, so over a large
\* keyspace a call visits a part of what is left, and always moves on.
ScanPages(remaining) ==
  IF boot.client = "mock" THEN { remaining }
  ELSE IF redisMode = "paged" /\ remaining # {}
  THEN { remaining } \cup { { k } : k \in { CHOOSE x \in remaining : TRUE } }
  ELSE { ScanChunk(remaining) }

\* The keys a SCAN call that visited `chunk` returns; the mock:
\* `scan: async () => ["0", []]`.
ScanReply(c, chunk, prefix) ==
  IF boot.client = "mock" THEN {}
  ELSE { k \in chunk \cap DOMAIN c : StartsWith(k, prefix) }

\* How many entries of a SCAN reply repeat a key of the same reply (SCAN may
\* return an element several times).
ScanRepeats(keys) == IF redisMode = "paged" /\ keys # {} THEN {0, 1} ELSE {0}

\* Variant for C12: `deletedCount += keys.length`.
CountsListed(count, deleted, listed) == count + listed

\* `deletedCount += deleted`, deleted being what DEL returned.
DeletedCount(count, deleted, listed) == count + deleted

\* deleteByPrefix, one iteration up to `await this.redis.scan(...)`.
ScanStep(i) ==
  /\ exitCode = -1
  /\ scan[i].pc = "scan"
  /\ boot.status \in {"ready", "end"}
  /\ \E fail \in CacheOutcomes :
     \E chunk \in ScanPages(IF scan[i].started THEN scan[i].remaining ELSE DOMAIN cache) :
     \E repeats \in ScanRepeats(ScanReply(cache, chunk, Prefixes[i])) :
       LET rem   == IF scan[i].started THEN scan[i].remaining ELSE DOMAIN cache
           keys  == ScanReply(cache, chunk, Prefixes[i])
           next  == rem \ chunk
           sc    == IF fail THEN [scan EXCEPT ![i].pc = "failed"]
                    ELSE [scan EXCEPT ![i].started = TRUE,
                                      ![i].remaining = next,
                                      ![i].keys = keys,
                                      ![i].listed = Cardinality(keys) + repeats,
                                      ![i].pc = IF keys # {} THEN "del"
                                                ELSE IF next = {} THEN "done" ELSE "scan"]
           after == AfterDelete(sc, i)
       IN /\ faults' = Charge(fail)
          /\ scan' = sc
          /\ pc' = after.pc
          /\ exitCode' = after.exitCode
          /\ log' = after.log
  /\ UNCHANGED <<source, redisAvailable, warm, cache, redisMode, boot, storeVars, mv, clientVars>>

\* deleteByPrefix, `await this.redis.del(...keys)` and the loop test.
DelStep(i) ==
  /\ exitCode = -1
  /\ scan[i].pc = "del"
  /\ \E fail \in CacheOutcomes :
       LET sc    == IF fail THEN [scan EXCEPT ![i].pc = "failed"]
                    ELSE [scan EXCEPT ![i].keys = {},
                                      ![i].listed = 0,
                                      ![i].deleted =
                                        DeletedCount(@, Cardinality(scan[i].keys \cap DOMAIN cache),
                                                     scan[i].listed),
                                      ![i].pc = IF scan[i].remaining = {} THEN "done" ELSE "scan"]
           after == AfterDelete(sc, i)
       IN /\ faults' = Charge(fail)
          /\ cache' = IF fail THEN cache ELSE RedisDel(cache, scan[i].keys)
          /\ scan' = sc
          /\ pc' = after.pc
          /\ exitCode' = after.exitCode
          /\ log' = after.log
  /\ UNCHANGED <<source, redisAvailable, warm, redisMode, boot, storeVars, mv, clientVars>>

\* <<the cache calls of a step fail, its store query fails>>; at most one
\* injected fault per step while the cache is only flaky.
FaultPairs ==
  { <<cf, sf>> \in CacheOutcomes \X StoreOutcomes : redisMode = "flaky" => ~(cf /\ sf) }

ChargePair(cacheFailed, storeFailed) ==
  faults - (IF storeFailed THEN 1 ELSE 0)
         - (IF cacheFailed /\ redisMode # "down" THEN 1 ELSE 0)

\* The state codes of the list findAll returned.
CodesOf(arr) == [i \in DOMAIN arr.v |-> Field(arr.v[i], "code").v]

\* Variant for C11: the next batch starts without awaiting Promise.all.
AfterBatchEager(w) ==
  LET n    == Len(w.states)
      next == w.i + CONCURRENCY_LIMIT
  IN IF next < n
     THEN [w EXCEPT !.i = next,
                    !.task = [j \in 1..n |-> IF j \in Batch(n, next) THEN "running"
                                              ELSE w.task[j]]]
     ELSE IF \E j \in 1..n : w.task[j] # "settled" THEN w
     ELSE [w EXCEPT !.i = next, !.result = "returned"]

\* warmAllStates once the tasks of the batch at offset i have all settled:
\* the next batch starts, or the count is returned to rebuildHotPayloads.
AfterBatch(w) ==
  LET n    == Len(w.states)
      next == w.i + CONCURRENCY_LIMIT
  IN IF \E j \in Batch(n, w.i) : w.task[j] # "settled" THEN w
     ELSE IF next < n
     THEN [w EXCEPT !.i = next,
                    !.task = [j \in 1..n |-> IF j \in Batch(n, next) THEN "running"
                                              ELSE w.task[j]]]
     ELSE [w EXCEPT !.i = next, !.result = "returned"]

\* rebuildHotPayloads() up to the first batch of warmAllStates(): findAll,
\* the empty-list return, the start of the first batch.  A store error in
\* findAll rejects warmAllStates; rebuildHotPayloads catches it.
WarmAllStates ==
  /\ pc = "warm"
  /\ \E f \in FaultPairs :
       LET r == ReadThrough(cache, FindAllKey, FindAllRows(Db), f[1])
           storeFails == f[2] /\ ~r.hit
           codes == CodesOf(r.value)
           n == Len(codes)
       IN /\ faults' = ChargePair(f[1], storeFails)
          /\ IF storeFails
             THEN /\ cache' = cache
                  /\ warm' = [NoWarm EXCEPT !.result = "threw"]
                  /\ log' = log \o <<"warm:start", "warm:failed">>
                  /\ pc' = "finish"
             ELSE /\ cache' = r.cache
                  /\ IF n = 0
                     THEN /\ warm' = [NoWarm EXCEPT !.result = "returned"]
                          /\ log' = log \o <<"warm:start", "warm:states">>
                          /\ pc' = "years"
                     ELSE /\ warm' = [states |-> codes, i |-> 0,
                                      task |-> [j \in 1..n |-> IF j \in Batch(n, 0)
                                                               THEN "running" ELSE "pending"],
                                      attempts |-> [j \in 1..n |-> 0],
                                      failed |-> {}, count |-> 0, result |-> "none"]
                          /\ log' = Append(log, "warm:start")
                          /\ pc' = "warming"
  /\ UNCHANGED <<source, exitCode, redisAvailable, scan, redisMode, boot, storeVars, mv, clientVars>>

\* One task of a batch: try { await warmStateCache(code); warmedCount++ }
\* catch { log }, and what warmAllStates does when the batch has settled.
WarmTask(j) ==
  /\ pc = "warming"
  /\ j \in DOMAIN warm.task
  /\ warm.task[j] = "running"
  /\ \E f \in FaultPairs : \E at \in 1..Len(WarmCalls(Db, warm.states[j])) :
       LET failAt == IF f[2] THEN at ELSE 0
           r == warmStateCache(Db, cache, warm.states[j], failAt, f[1])
           w == AfterBatch([warm EXCEPT !.task[j] = "settled",
                                        !.attempts[j] = @ + 1,
                                        !.failed = IF r.failed THEN @ \cup {j} ELSE @,
                                        !.count = IF r.threw THEN @ ELSE @ + 1])
       IN /\ (~f[2] => at = 1)
          /\ faults' = ChargePair(f[1], r.failed)
          /\ cache' = r.cache
          /\ warm' = w
          /\ IF w.result = "returned"
             THEN pc' = "years" /\ log' = Append(log, "warm:states")
             ELSE pc' = pc /\ log' = log
  /\ UNCHANGED <<source, exitCode, redisAvailable, scan, redisMode, boot, storeVars, mv, clientVars>>

\* warmRecentYears(5): the DISTINCT year query (its error is rethrown and
\* caught by rebuildHotPayloads), then warmYearData.
WarmRecentYears ==
  /\ pc = "years"
  /\ \E f \in FaultPairs : \E at \in 0..Len(RecentYears(Db, RECENT_YEARS)) :
       LET years == RecentYears(Db, RECENT_YEARS) IN
       /\ (~f[2] => at = 0)
       /\ faults' = ChargePair(f[1], f[2])
       /\ IF f[2] /\ at = 0
          THEN /\ cache' = cache
               /\ log' = Append(log, "warm:failed")
               /\ pc' = "finish"
          ELSE /\ cache' = warmYearData(Db, cache, years, 1, at, f[1])
               /\ log' = log
               /\ pc' = "stats"
  /\ UNCHANGED <<source, exitCode, redisAvailable, scan, warm, redisMode, boot, storeVars, mv,
                 clientVars>>

\* getWarmingStats(): dbsize, info, ping; a failure yields zeros, not an error.
WarmingStats ==
  /\ pc = "stats"
  /\ \E fail \in CacheOutcomes :
       /\ faults' = Charge(fail)
       /\ log' = Append(log, IF fail THEN "warm:nostats" ELSE "warm:stats")
  /\ pc' = "finish"
  /\ UNCHANGED <<source, exitCode, redisAvailable, scan, warm, cache, redisMode, boot, storeVars,
                 mv, clientVars>>

\* The end of ingestData and of main(): process.exit(0).
Finish ==
  /\ pc = "finish"
  /\ log' = Append(log, "completed")
  /\ exitCode' = 0
  /\ pc' = "exited"
  /\ UNCHANGED <<source, redisAvailable, scan, warm, cache, redisMode, boot, faults, storeVars,
                 mv, clientVars>>

\* ------------------------------------------------------------ specifications
\* The seeded store: two states, three plants, their facts for the year, and
\* the view as the last refresh left it.
InitStates == << [code |-> TX, name |-> TX], [code |-> CA, name |-> CA] >>
InitPlants == << [name |-> <<"S", "T", "P">>, stateId |-> 1],
                 [name |-> <<"C", "P">>, stateId |-> 1],
                 [name |-> <<"P", "V">>, stateId |-> 2] >>
InitGens   == { [id |-> 1, plantId |-> 1, year |-> CURRENT_YEAR, netGeneration |-> 21],
                [id |-> 2, plantId |-> 2, year |-> CURRENT_YEAR, netGeneration |-> 18],
                [id |-> 3, plantId |-> 3, year |-> CURRENT_YEAR, netGeneration |-> 31] }
InitStore  == [states |-> InitStates, plants |-> InitPlants, gens |-> InitGens,
               nextGenId |-> Cardinality(InitGens) + 1]

vars == <<states, plants, gens, nextGenId, mv, cache, redisMode, boot, faults,
          req, done, engineCalls, pc, source, exitCode, redisAvailable, log, scan, warm>>

\* What the API has cached when it served the queries of Q from a store.
RECURSIVE CachedBy(_, _)
CachedBy(Q, db) ==
  IF Q = {} THEN <<>>
  ELSE LET q == CHOOSE x \in Q : TRUE
           c == ServiceCompute(q, db)
           rest == CachedBy(Q \ {q}, db)
       IN IF c.out.kind = "ok"
          THEN RedisSetex(rest, CacheKeyOf(q), CACHE_TTL, JSONstringify(c.out.value))
          ELSE rest

InitDb == [states |-> InitStates, plants |-> InitPlants, gens |-> InitGens,
           mv |-> MvOf(InitPlants, InitGens)]

\* The queries served before the script starts, in the script-only runs.
ServedBefore ==
  { {},
    { q \in Queries : q.op = "getStatesSummary" },
    Queries }

InitWith(modes, budget, caches) ==
  /\ states = InitStates
  /\ plants = InitPlants
  /\ gens = InitGens
  /\ nextGenId = InitStore.nextGenId
  /\ mv = InitDb.mv
  /\ cache \in caches
  /\ redisMode \in modes
  /\ boot = Ready
  /\ faults = budget
  /\ req = Idle
  /\ done = <<>>
  /\ engineCalls = 0
  /\ pc = "main"
  /\ source = <<>>
  /\ exitCode = -1
  /\ redisAvailable = FALSE
  /\ log = <<>>
  /\ scan = NoScan
  /\ warm = NoWarm

\* A healthy environment: the cache is up and no call fails.
Init == InitWith({"up"}, 0, { <<>> })

\* Any environment: the cache up, down or flaky, store queries may fail.
InitFaulty == InitWith({"up", "down", "flaky"}, MaxFaults, { <<>> })

\* The script starts after the API has served some queries.
\* or after the warming of an earlier run has filled the StateRepository keys.
InitScript ==
  LET all     == ReadThrough(<<>>, FindAllKey, FindAllRows(InitDb), FALSE).cache
      ofCA    == warmStateCache(InitDb, all, CA, 0, FALSE).cache
      ofTX    == warmStateCache(InitDb, ofCA, TX, 0, FALSE).cache
      warmed  == warmYearData(InitDb, ofTX, RecentYears(InitDb, RECENT_YEARS), 1, 0, FALSE)
  IN InitWith({"up", "down", "flaky"}, MaxFaults,
              { CachedBy(Q, InitDb) : Q \in ServedBefore } \cup { warmed })

\* The queries that arrive while the ingestion script runs.
ConcurrentQueries ==
  { q \in Queries : /\ q.op \in {"getStatesSummary", "getStateDetail"}
                    /\ q.state \in {<<>>, TX} /\ q.top = 0 }

Client(Q) ==
  \/ \E q \in Q : Request(q)
  \/ ServiceGet
  \/ ServiceEngine
  \/ ServiceSetex

Script ==
  \/ Main
  \/ ReadSheet
  \/ IngestTransaction
  \/ RefreshView
  \/ InvalidateCache
  \/ \E i \in DOMAIN Prefixes : ScanStep(i)
  \/ \E i \in DOMAIN Prefixes : DelStep(i)
  \/ WarmAllStates
  \/ \E j \in 1..(Len(InitStates) + MaxRows) : WarmTask(j)
  \/ WarmRecentYears
  \/ WarmingStats
  \/ Finish

\* The API and one run of the ingestion script, side by side.
Next == Client(ConcurrentQueries) \/ Script
Spec == Init /\ [][Next]_vars

\* The API alone, in any environment.
SpecService == InitFaulty /\ [][Client(Queries)]_vars

\* The ingestion script alone, in any environment.
SpecScript == InitScript /\ [][Script]_vars

\* ------------------------------------------------------------------- claims
\* Whether the script has printed milestone m.
Logged(m) == \E i \in DOMAIN log : log[i] = m

RECURSIVE SumCalls(_)
SumCalls(h) == IF h = <<>> THEN 0 ELSE h[1].calls + SumCalls(Tail(h))

\* C1 (as stated): when every cache call fails, each finished query operation
\* returns exactly the result the Query Engine computes for its parameters
\* and no cache error reaches the caller.
C1_CacheDownIsTransparent ==
  redisMode = "down" =>
    \A i \in DOMAIN done :
      /\ done[i].out.kind # "CacheError"
      /\ done[i].out.kind # "StoreError" => done[i].out = ServiceCompute(done[i].q, Db).out

\* C2 (as stated): once the invalidation step has succeeded, with no request
\* in between, the next call for any key a query operation had cached before
\* the ingestion is a cache miss.
C2_InvalidationCoversQueryKeys ==
  (pc = "warm" /\ Logged("invalidate:ok")) =>
    \A q \in Queries : ~CacheHit(RedisGet(cache, CacheKeyOf(q)))

\* C3 (as stated): when a successful run has finished and the concurrent
\* requests have returned, every entry cached under a query key of an
\* invalidated prefix holds what the Query Engine computes from the store and
\* the aggregate as the run left them.
C3_NoStaleEntryAfterRun ==
  (pc = "exited" /\ exitCode = 0 /\ req.pc = "idle") =>
    \A q \in ConcurrentQueries :
      CacheHit(RedisGet(cache, CacheKeyOf(q))) =>
        RedisGet(cache, CacheKeyOf(q)) = JSONstringify(ServiceCompute(q, Db).out.value)

\* C4: a call that finds an entry under its key returns the deserialized
\* entry without a repository call; the repository is called only by the
\* requests that missed; and a call that follows a successful call with the
\* same parameters is a hit with the same serialized output.
C4_HitServesCachedValue ==
  /\ \A i \in DOMAIN done :
       done[i].hit => /\ done[i].out = Ok(JSONparse(done[i].cached))
                      /\ done[i].cached = RedisGet(cache, done[i].key)
                      /\ done[i].calls = 0
  /\ engineCalls = SumCalls(done) + req.calls
  /\ \A i \in DOMAIN done : \A j \in DOMAIN done :
       ( /\ j = i + 1
         /\ done[i].q = done[j].q
         /\ done[i].out.kind = "ok"
         /\ done[j].out.kind # "CacheError" ) =>
           /\ done[j].hit
           /\ done[j].calls = 0
           /\ done[j].out.kind = "ok"
           /\ JSONstringify(done[j].out.value) = JSONstringify(done[i].out.value)

\* A miss that cached a result with Decimal fields, then a hit for the same
\* parameters whose value is the parsed text.
C4_Witness ==
  /\ Len(done) = 2
  /\ done[1].q = done[2].q
  /\ ~done[1].hit /\ done[1].out.kind = "ok" /\ done[1].calls > 0
  /\ done[2].hit
  /\ done[2].out.value # done[1].out.value

\* C5 (as stated): after a successful run with a reachable cache and no
\* failing call, the entries getStatesSummary reads for the recent years and
\* getStateDetail reads for every state and top 10 / 20 are in the cache.
C5_WarmingWritesQueryKeys ==
  ( /\ pc = "exited" /\ exitCode = 0
    /\ redisMode = "up" /\ faults = MaxFaults
    /\ Logged("warm:stats") ) =>
      LET years == RecentYears(Db, RECENT_YEARS) IN
      \A k \in DOMAIN years :
        /\ CacheHit(RedisGet(cache, SummaryKey(years[k])))
        /\ \A i \in DOMAIN states : \A n \in {WARM_TOP_A, WARM_TOP_B} :
             CacheHit(RedisGet(cache, DetailKey(states[i].code, years[k], n)))

\* C6 (as stated): the refresh starts only after the commit, invalidation
\* only after the refresh has completed, and warming only once no
\* deleteByPrefix call of the invalidation step is still running.
C6_StepsDoNotOverlap ==
  /\ (Logged("refresh:ok") \/ Logged("refresh:failed")) => Logged("tx:committed")
  /\ Logged("invalidate:start") => Logged("refresh:ok")
  /\ Logged("warm:start") =>
       /\ Logged("invalidate:ok") \/ Logged("invalidate:failed")
       /\ \A i \in DOMAIN scan : scan[i].pc \in {"done", "failed"}

\* C7: once the refresh has failed the run has ended with exit code 1,
\* neither invalidation nor warming has started, and the store holds what
\* the transaction committed.
C7_RefreshFailureIsFatal ==
  Logged("refresh:failed") =>
    /\ pc = "exited" /\ exitCode = 1
    /\ ~Logged("invalidate:start") /\ ~Logged("warm:start")
    /\ scan = NoScan /\ warm = NoWarm
    /\ Logged("tx:committed")
    /\ Store = IF Logged("tx:row-error") THEN InitStore ELSE Transaction(InitStore, source)

\* The refresh failed after a transaction that changed the store.
C7_Witness ==
  /\ Logged("refresh:failed")
  /\ source # <<>>
  /\ Store # InitStore

\* C8: no state is attempted twice; when warmAllStates returns, every state
\* findAll returned has had exactly one attempt; a failed state makes neither
\* warmAllStates nor the run fail.
C8_WarmFailureIsIsolated ==
  /\ \A j \in DOMAIN warm.attempts : warm.attempts[j] <= 1
  /\ warm.result = "returned" =>
       \A j \in DOMAIN warm.states : warm.attempts[j] = 1
  /\ warm.failed # {} =>
       /\ warm.result # "threw"
       /\ pc # "warming" => warm.result = "returned"
       /\ pc = "exited" => exitCode = 0

\* A run that ended with exit code 0 although the warm attempt of one of
\* several states failed.
C8_Witness ==
  /\ pc = "exited" /\ exitCode = 0
  /\ warm.failed # {}
  /\ Len(warm.states) > Cardinality(warm.failed)
  /\ \A j \in DOMAIN warm.states : warm.attempts[j] = 1

\* C9 (as stated): the count warmAllStates returns is the number of states
\* whose warm attempt succeeded.
C9_CountIsSuccesses ==
  warm.result = "returned" =>
    warm.count = Len(warm.states) - Cardinality(warm.failed)

\* C10: once a deleteByPrefix call has failed, the run does not end with
\* exit code 1, it ends only after warming has started, and the store and
\* the refreshed aggregate are as the transaction and the refresh left them.
C10_InvalidationFailureSwallowed ==
  Logged("invalidate:failed") =>
    /\ exitCode # 1
    /\ pc # "invalidating"
    /\ pc = "exited" => (exitCode = 0 /\ Logged("warm:start") /\ Logged("completed"))
    /\ Store = IF Logged("tx:row-error") THEN InitStore ELSE Transaction(InitStore, source)
    /\ mv = MvOf(plants, gens)

\* A run that ended with exit code 0 after redis.del failed on scanned keys.
C10_Witness ==
  /\ pc = "exited" /\ exitCode = 0
  /\ Logged("invalidate:failed") /\ Logged("warm:start")
  /\ \E i \in DOMAIN scan : scan[i].pc = "failed" /\ scan[i].keys # {}

\* ------------------------------------------------ warming over many states
\* A store that holds MaxStates states (codes AA, AC, AF, ...) and no plant.
ManyStates ==
  [k \in 1..MaxStates |->
     LET code == <<Alphabet[((k - 1) \div Len(Alphabet)) + 1],
                   Alphabet[((k - 1) % Len(Alphabet)) + 1]>>
     IN [code |-> code, name |-> code]]

\* The script at the start of rebuildHotPayloads, after an empty sheet was
\* committed, the view refreshed and an empty cache invalidated.
InitWarm ==
  /\ states = ManyStates
  /\ plants = <<>>
  /\ gens = {}
  /\ nextGenId = 1
  /\ mv = {}
  /\ cache = <<>>
  /\ redisMode = "up"
  /\ boot = Ready
  /\ faults = 0
  /\ req = Idle
  /\ done = <<>>
  /\ engineCalls = 0
  /\ pc = "warm"
  /\ source = <<>>
  /\ exitCode = -1
  /\ redisAvailable = TRUE
  /\ log = <<"redis:connected", "tx:committed", "refresh:ok", "invalidate:start",
             "invalidate:ok">>
  /\ scan = [i \in DOMAIN Prefixes |-> [NoScan[i] EXCEPT !.pc = "done", !.started = TRUE]]
  /\ warm = NoWarm

\* rebuildHotPayloads and the end of the run.
SpecWarm ==
  InitWarm /\ [][ \/ WarmAllStates
                  \/ \E j \in 1..MaxStates : WarmTask(j)
                  \/ WarmRecentYears
                  \/ WarmingStats
                  \/ Finish ]_vars

\* C11: at most CONCURRENCY_LIMIT warm tasks are in flight, and while a task
\* of a batch is in flight every task of the earlier batches has settled and
\* no task of a later batch has started.
C11_BoundedBatches ==
  LET n        == Len(warm.states)
      batch(j) == (j - 1) \div CONCURRENCY_LIMIT
      inFlight == { j \in 1..n : warm.task[j] = "running" }
  IN /\ Cardinality(inFlight) <= CONCURRENCY_LIMIT
     /\ \A j \in inFlight : \A k \in 1..n :
          /\ batch(k) < batch(j) => warm.task[k] = "settled"
          /\ batch(k) > batch(j) => warm.task[k] = "pending"
     /\ \A j \in 1..n : warm.task[j] = "pending" => warm.attempts[j] = 0

\* The second batch is in flight after the ten tasks of the first settled.
C11_Witness ==
  /\ pc = "warming"
  /\ Len(warm.states) > CONCURRENCY_LIMIT
  /\ \E j \in DOMAIN warm.task : j > CONCURRENCY_LIMIT /\ warm.task[j] = "running"
  /\ \A j \in 1..CONCURRENCY_LIMIT : warm.task[j] = "settled" /\ warm.attempts[j] = 1

\* ------------------------------------------- invalidation of a large cache
\* The entries every query of the model leaves in the cache.
FullCache == CachedBy(Queries, InitDb)

\* The script at the start of invalidateCache, the API having answered
\* every query before the run; the sheet held no row.
InitDelete ==
  /\ states = InitStates
  /\ plants = InitPlants
  /\ gens = InitGens
  /\ nextGenId = InitStore.nextGenId
  /\ mv = InitDb.mv
  /\ cache = FullCache
  /\ redisMode = "paged"
  /\ boot = Ready
  /\ faults = 0
  /\ req = Idle
  /\ done = <<>>
  /\ engineCalls = 0
  /\ pc = "invalidate"
  /\ source = <<>>
  /\ exitCode = -1
  /\ redisAvailable = TRUE
  /\ log = <<"redis:connected", "tx:committed", "refresh:ok">>
  /\ scan = NoScan
  /\ warm = NoWarm

DeleteByPrefixes ==
  InvalidateCache \/ (\E i \in DOMAIN Prefixes : ScanStep(i))
                  \/ (\E i \in DOMAIN Prefixes : DelStep(i))

\* invalidateCache alone; every pending Redis call is eventually answered.
SpecDelete == InitDelete /\ [][DeleteByPrefixes]_vars /\ WF_vars(DeleteByPrefixes)

\* C12: every deleteByPrefix(p) that was started returns; when it has, no key
\* with prefix p is left, its count is the number of keys with prefix p that
\* were in the keyspace, and every key (with its value) that starts with no
\* prefix whose deletion has begun is still there.
C12_DeleteByPrefixExact ==
  LET KeysWith(c, prefix) == { k \in DOMAIN c : StartsWith(k, prefix) } IN
  /\ [](\A i \in DOMAIN Prefixes :
          /\ scan[i].pc = "done" =>
               /\ KeysWith(cache, Prefixes[i]) = {}
               /\ scan[i].deleted = Cardinality(KeysWith(FullCache, Prefixes[i]))
          /\ scan[i].deleted <= Cardinality(KeysWith(FullCache, Prefixes[i]))
          /\ \A k \in DOMAIN FullCache :
               (\A j \in DOMAIN Prefixes : scan[j].pc # "idle" => ~StartsWith(k, Prefixes[j]))
                 => k \in DOMAIN cache /\ cache[k] = FullCache[k]
          /\ DOMAIN cache \subseteq DOMAIN FullCache)
  /\ \A i \in DOMAIN Prefixes : (scan[i].pc = "scan") ~> (scan[i].pc = "done")

\* A deleteByPrefix has returned after several SCAN calls, one of which listed
\* a key twice, and it removed more than one key.
C12_Witness ==
  \E i \in DOMAIN Prefixes :
    /\ scan[i].pc = "done"
    /\ scan[i].deleted > 1
    /\ \E j \in DOMAIN Prefixes : j # i /\ scan[j].pc = "del" /\ scan[j].listed > Cardinality(scan[j].keys)
    /\ \E k \in DOMAIN cache : ~StartsWith(k, Prefixes[i])

\* ------------------------------------------------- start of the application
\* retryStrategy of the provider's options; retry = FALSE is the `null` that
\* stops ioredis from reconnecting.
retryStrategy(times) ==
  IF times > 3 THEN [retry |-> FALSE, delay |-> 0]
  ELSE [retry |-> TRUE, delay |-> IF times * 100 < 3000 THEN times * 100 ELSE 3000]

\* useFactory: the ioredis instance, or the mock when the constructor throws.
UseFactory ==
  /\ boot.status = "start"
  /\ boot' = IF redisMode = "invalid"
             THEN [client |-> "mock", status |-> "ready", times |-> 0]
             ELSE [client |-> "real", status |-> "connecting", times |-> 0]
  /\ UNCHANGED <<cache, redisMode, faults, storeVars, mv, clientVars, pipeVars>>

\* A connection attempt of the ioredis instance: connected, or closed, and
\* then retryStrategy decides between another attempt and giving up.
Connect ==
  /\ boot.status = "connecting"
  /\ boot' = IF redisMode # "down" THEN [boot EXCEPT !.status = "ready"]
             ELSE LET times == boot.times + 1 IN
                  [boot EXCEPT !.times = times,
                               !.status = IF retryStrategy(times).retry THEN "connecting"
                                          ELSE "end"]
  /\ UNCHANGED <<cache, redisMode, faults, storeVars, mv, clientVars, pipeVars>>

\* The application starts while Redis is up, unreachable or misconfigured and
\* holds nothing or the entries of an earlier run; a RedisHelper over the
\* provider's client is about to delete the ingestion's prefixes.
InitBoot ==
  /\ states = InitStates
  /\ plants = InitPlants
  /\ gens = InitGens
  /\ nextGenId = InitStore.nextGenId
  /\ mv = InitDb.mv
  /\ cache \in { <<>>, FullCache }
  /\ redisMode \in {"up", "down", "invalid"}
  /\ boot = [client |-> "none", status |-> "start", times |-> 0]
  /\ faults = 0
  /\ req = Idle
  /\ done = <<>>
  /\ engineCalls = 0
  /\ pc = "invalidate"
  /\ source = <<>>
  /\ exitCode = -1
  /\ redisAvailable = FALSE
  /\ log = <<>>
  /\ scan = NoScan
  /\ warm = NoWarm

\* One query of each operation.
BootQueries ==
  { q \in Queries : q.top = 0 /\ q.state \in {<<>>, TX} /\ q.id \in {0, 1} }

SpecBoot ==
  InitBoot /\ [][ \/ UseFactory
                  \/ Connect
                  \/ Client(BootQueries)
                  \/ DeleteByPrefixes ]_vars

\* C13: with the mock client no request is a hit or fails on the cache, each
\* is answered by the Query Engine with what the engine computes, nothing is
\* stored or removed, and deleteByPrefix returns 0 after its first SCAN.
C13_MockIsNoOp ==
  boot.client = "mock" =>
    /\ cache \in { <<>>, FullCache }
    /\ \A i \in DOMAIN done :
         /\ ~done[i].hit
         /\ done[i].cached = Absent
         /\ done[i].calls >= 1
         /\ done[i].out = ServiceCompute(done[i].q, Db).out
    /\ \A i \in DOMAIN Prefixes :
         /\ scan[i].pc \in {"idle", "scan", "done"}
         /\ scan[i].started => scan[i].pc = "done"
         /\ scan[i].deleted = 0
    /\ ~Logged("invalidate:failed")

\* The mock has answered two requests whose keys Redis holds, and both
\* deleteByPrefix calls have returned.
C13_Witness ==
  /\ boot.client = "mock"
  /\ cache = FullCache
  /\ Len(done) = MaxRequests
  /\ \A i \in DOMAIN done : done[i].key \in DOMAIN cache /\ done[i].out.kind = "ok"
  /\ \A i \in DOMAIN Prefixes : scan[i].pc = "done"
  /\ Logged("invalidate:ok")

\* C14: once the connection has failed three times the client of the services
\* is the mock, and no request fails because of the cache.
C14_MockAfterThreeFailures ==
  /\ boot.times >= 3 => boot.client = "mock"
  /\ \A i \in DOMAIN done : done[i].out.kind # "CacheError"

\* C15: when the run is over, either every source row is in the store (its
\* state, its plant and the plant's fact of the year) or the store is what it
\* was before the run; in the second case with rows to write, the refresh, the
\* invalidation and the warming were not performed.
C15_AllOrNothing ==
  pc = "exited" =>
    LET reflected ==
          \A k \in DOMAIN source :
            LET sid  == StateIdOf(states, source[k].stateCode)
                pid  == IF sid = 0 THEN 0 ELSE PlantIdOf(plants, source[k].plantName, sid)
                last == CHOOSE j \in DOMAIN source :
                          /\ source[j].plantName = source[k].plantName
                          /\ source[j].stateCode = source[k].stateCode
                          /\ \A i \in DOMAIN source :
                               (source[i].plantName = source[k].plantName
                                  /\ source[i].stateCode = source[k].stateCode) => i <= j
            IN /\ sid # 0
               /\ pid # 0
               /\ \E g \in gens : /\ g.plantId = pid
                                  /\ g.year = CURRENT_YEAR
                                  /\ g.netGeneration = source[last].netGeneration
    IN \/ reflected
       \/ /\ Store = InitStore
          /\ ~Logged("refresh:ok") /\ ~Logged("refresh:failed")
          /\ ~Logged("invalidate:start") /\ ~Logged("warm:start")

\* For every (state, year) with a generation fact, the total the Query Engine
\* reads from the view is the sum of the facts of that state and year.
AggregateMatchesFacts ==
  \A g \in gens :
    LET sid == plants[g.plantId].stateId IN
    StateTotal(Db, sid, g.year)
      = SumNet({ h \in gens : plants[h.plantId].stateId = sid /\ h.year = g.year })

C17_PercentWithinBounds ==
  \A stateCode \in {<<>>, TX, CA, FL} : \A year \in {0, CURRENT_YEAR} :
    LET out == getTopNPlants(Db, DEFAULT_TOP, stateCode, year) IN
    out.kind = "ok" =>
      \A i \in DOMAIN out.value.v :
        LET percent == Field(out.value.v[i], "percentOfState").v IN
        /\ 0 <= percent[1]
        /\ percent[1] <= 100 * percent[2]

\* C18: once the transaction of a run has committed its rows, the transaction
\* of a second run on the same sheet leaves the states, the plants and the
\* facts (plant, year, amount) as they are, and a refresh after it computes
\* the same aggregate as a refresh before it.
C18_RerunIsIdempotent ==
  (Logged("tx:committed") /\ ~Logged("tx:row-error")) =>
    LET Content(st) ==
          [states |-> st.states, plants |-> st.plants,
           facts  |-> { [plantId |-> g.plantId, year |-> g.year,
                         netGeneration |-> g.netGeneration] : g \in st.gens }]
        again == Transaction(Store, source)
    IN /\ Content(again) = Content(Store)
       /\ MvOf(again.plants, again.gens) = MvOf(plants, gens)

\* A committed sheet with two rows of the same plant and state that added a
\* state and a plant to the store.
C18_Witness ==
  /\ Logged("tx:committed") /\ ~Logged("tx:row-error")
  /\ Len(source) = 2
  /\ source[1].plantName = source[2].plantName
  /\ source[1].stateCode = source[2].stateCode
  /\ Len(plants) > Len(InitPlants)
  /\ Len(states) > Len(InitStates)

\* C19: over validated parameters (top absent, 1, 10 or 100; state absent or
\* two upper-case letters; year absent, 1900, 2023 or 2100) two getTopPlants
\* keys are equal exactly when top after defaulting, state and year are equal;
\* the keys of getTopPlants, getPlantById, getStatesSummary, getStateDetail
\* and of the StateRepository are pairwise different (both evaluated once,
\* before the first request, as they depend on no variable); and the keys
\* the service has used for its requests obey both.
C19_KeysAreInjective ==
  LET tops   == {0, 1, DEFAULT_TOP, 100}
      codes  == {TX, CA, <<"A", "L">>}
      years  == {0, 1900, CURRENT_YEAR, 2100}
      params == tops \X (codes \cup {<<>>}) \X years
      norm(p) == <<IF p[1] # 0 THEN p[1] ELSE DEFAULT_TOP, p[2], p[3]>>
      topKeys     == { TopPlantsKey(p[1], p[2], p[3]) : p \in params }
      plantKeys   == { PlantKey(id) : id \in 1..100 }
      summaryKeys == { SummaryKey(y) : y \in years \ {0} }
      detailKeys  == { DetailKey(c, y, t) : c \in codes, y \in years \ {0}, t \in tops \ {0} }
      repoKeys    == { FindAllKey }
                       \cup { FindByCodeKey(c) : c \in codes }
                       \cup { GenerationByStateKey(c, y) : c \in codes, y \in years }
                       \cup { TopPlantsByStateKey(c, t, y) :
                                c \in codes, t \in tops \ {0}, y \in years }
                       \cup { GenerationByYearKey(y) : y \in years \ {0} }
                       \cup { StateStatisticsKey(c) : c \in codes }
      groups == <<topKeys, plantKeys, summaryKeys, detailKeys, repoKeys>>
  IN /\ (done = <<>> /\ req = Idle) =>
          /\ \A p, q \in params :
               (TopPlantsKey(p[1], p[2], p[3]) = TopPlantsKey(q[1], q[2], q[3]))
                 <=> (norm(p) = norm(q))
          /\ \A a, b \in DOMAIN groups : a # b => groups[a] \cap groups[b] = {}
     /\ \A i, j \in DOMAIN done :
          /\ done[i].q.op # done[j].q.op => done[i].key # done[j].key
          /\ (done[i].q.op = "getTopPlants" /\ done[j].q.op = "getTopPlants") =>
               ((done[i].key = done[j].key)
                  <=> (TopOf(done[i].q) = TopOf(done[j].q)
                         /\ done[i].q.state = done[j].q.state
                         /\ done[i].q.year = done[j].q.year))

\* getTopPlants was called without top and then with top = 10: the second
\* call used the key of the first and was a hit.
C19_Witness ==
  /\ Len(done) = 2
  /\ done[1].q.op = "getTopPlants" /\ done[2].q.op = "getTopPlants"
  /\ done[1].q.top = 0 /\ done[2].q.top = DEFAULT_TOP
  /\ done[1].key = done[2].key
  /\ done[2].hit

\* ------------------------------------------------ losing cache entries
\* Entries disappear from Redis at any time: their TTL runs out, Redis evicts
\* them, or an operator deletes them.
Evict ==
  /\ \E K \in SUBSET DOMAIN cache :
       /\ K # {}
       /\ cache' = RedisDel(cache, K)
  /\ UNCHANGED <<redisMode, boot, faults, storeVars, mv, clientVars, pipeVars>>

\* The services without a cache (PlantsService and StatesService as they
\* were before the cache was added): the repository calls and the mapping.
Uncached(q, db) == ServiceCompute(q, db).out

\* Requests against a healthy cache that loses entries; no ingestion.
SpecEvict == Init /\ [][Client(Queries) \/ Evict]_vars

\* C20 as stated: every answer of the cached service is the value the
\* uncached service returns for the same parameters.
C20_SameValueAsUncached ==
  \A i \in DOMAIN done : done[i].out = Uncached(done[i].q, Db)

\* C20: every answer of the cached service is the outcome of the uncached
\* service for the same parameters, with the same JSON text as its value.
C20_SameResponseAsUncached ==
  \A i \in DOMAIN done :
    LET plain == Uncached(done[i].q, Db) IN
    /\ done[i].out.kind = plain.kind
    /\ done[i].out.msg = plain.msg
    /\ JSONstringify(done[i].out.value) = JSONstringify(plain.value)

\* A query was answered from the store and cached, its entry was lost, the
\* same query was answered from the store again, and that entry was lost too.
C20_Witness ==
  /\ Len(done) = 2
  /\ done[1].q = done[2].q
  /\ done[1].out.kind = "ok"
  /\ ~done[1].hit /\ ~done[2].hit
  /\ done[2].calls >= 1
  /\ cache = <<>>

\* C21: a repository call that fails with a store error ends the request with
\* that error: the response carries no value, nothing is written to the cache,
\* and a value answered after a miss is always what the Query Engine computed.
C21_StoreErrorPropagates ==
  [][ /\ (req.pc = "engine" /\ faults' < faults) =>
          /\ Len(done') = Len(done) + 1
          /\ done'[Len(done')].q = req.q
          /\ done'[Len(done')].out.kind = "StoreError"
          /\ done'[Len(done')].out.value = Null
          /\ ~done'[Len(done')].hit
          /\ cache' = cache
          /\ req' = Idle
      /\ \A i \in DOMAIN done' :
           (done'[i].out.kind = "ok" /\ ~done'[i].hit) =>
             done'[i].out = ServiceCompute(done'[i].q, Db).out ]_vars

\* A request answered with a value was followed by a getStatesSummary or a
\* getStateDetail that ended with a store error.
C21_Witness ==
  /\ Len(done) = MaxRequests
  /\ done[Len(done)].out.kind = "StoreError"
  /\ done[Len(done)].q.op \in {"getStatesSummary", "getStateDetail"}
  /\ done[1].out.kind = "ok"

\* C22: getTopNPlants ends with NotFound exactly when a stateCode is given
\* that no state of the store has, whatever facts the store holds (the same
\* holds over a store without facts); otherwise it returns a list, which is
\* empty when no fact matches the filter.
C22_NotFoundOnlyForUnknownState ==
  \A stateCode \in {<<>>, TX, CA, FL, ZZ} : \A year \in {0, CURRENT_YEAR, CURRENT_YEAR - 1} :
    LET out     == getTopNPlants(Db, DEFAULT_TOP, stateCode, year)
        bare    == getTopNPlants([Db EXCEPT !.gens = {}], DEFAULT_TOP, stateCode, year)
        unknown == stateCode # <<>> /\ \A i \in DOMAIN states : states[i].code # stateCode
        facts   == { g \in gens :
                       /\ (year # 0 => g.year = year)
                       /\ (stateCode # <<>> => states[plants[g.plantId].stateId].code = stateCode) }
    IN /\ unknown => (out.kind = "NotFound" /\ bare.kind = "NotFound")
       /\ ~unknown => /\ out.kind = "ok" /\ out.value.t = "array"
                       /\ (Len(out.value.v) = 0) <=> (facts = {})
                       /\ bare = Ok(JsArr(<<>>))

\* After a commit that left CA, a known state, without facts of the year:
\* an empty list for CA, NotFound for ZZ, a non-empty list for TX.
C22_Witness ==
  /\ Logged("tx:committed")
  /\ getTopNPlants(Db, DEFAULT_TOP, CA, CURRENT_YEAR) = Ok(JsArr(<<>>))
  /\ getTopNPlants(Db, DEFAULT_TOP, ZZ, CURRENT_YEAR).kind = "NotFound"
  /\ getTopNPlants(Db, DEFAULT_TOP, TX, CURRENT_YEAR).kind = "ok"
  /\ Len(getTopNPlants(Db, DEFAULT_TOP, TX, CURRENT_YEAR).value.v) > 0

\* C23: getStateDetail fails with NotFound when the state code is unknown and
\* when the state exists but the aggregate has no row for the requested year,
\* with two different messages; the unknown-state check comes first, and for
\* a known state the outcome kind is decided by the aggregate row alone: the
\* same call on a store without any fact gives the same kind and message.
C23_StateDetailNotFound ==
  \A stateCode \in {TX, CA, FL, ZZ} : \A year \in {CURRENT_YEAR, CURRENT_YEAR - 1} :
    LET out   == getStateDetail(Db, stateCode, year)
        bare  == getStateDetail([Db EXCEPT !.gens = {}], stateCode, year)
        known == \E i \in DOMAIN states : states[i].code = stateCode
        row   == \E m \in mv : /\ m.year = year
                               /\ m.state_id \in DOMAIN states
                               /\ states[m.state_id].code = stateCode
    IN /\ ~known => out = NotFound("State with code not found")
       /\ (known /\ ~row) => out = NotFound("No data found for state in year")
       /\ (known /\ row) => out.kind = "ok"
       /\ bare.kind = out.kind
       /\ bare.msg = out.msg
       /\ NotFound("State with code not found") # NotFound("No data found for state in year")

\* A committed run has added facts of the current year to a state whose
\* aggregate row is not there yet: that state answers "no data", an unknown
\* code answers "state not found", and a state with a row answers.
C23_Witness ==
  /\ Logged("tx:committed")
  /\ \E stateCode \in {TX, CA, FL} :
       /\ getStateDetail(Db, stateCode, CURRENT_YEAR).msg = "No data found for state in year"
       /\ \E g \in gens : /\ g.year = CURRENT_YEAR
                          /\ states[plants[g.plantId].stateId].code = stateCode
  /\ getStateDetail(Db, ZZ, CURRENT_YEAR).msg = "State with code not found"
  /\ \E stateCode \in {TX, CA, FL} : getStateDetail(Db, stateCode, CURRENT_YEAR).kind = "ok"

\* C24: for every valid query, getTopNPlants(top = N) returns at most N
\* records (the N largest of the facts the filters select: all states when
\* stateCode is absent, only plants of that state otherwise, only facts of
\* the year when year is present), sorted non-increasing by netGeneration,
\* with rank i + 1 at position i; the service layer keeps order and ranks.
C24_TopNSortedRanked ==
  \A top \in {1, 2, DEFAULT_TOP} : \A stateCode \in {<<>>, TX, CA} :
    \A year \in {0, CURRENT_YEAR} :
      LET out   == getTopNPlants(Db, top, stateCode, year)
          facts == { g \in gens :
                       /\ (year # 0 => g.year = year)
                       /\ (stateCode # <<>> =>
                             states[plants[g.plantId].stateId].code = stateCode) }
          v     == out.value.v
          net(r) == Field(r, "netGeneration").v
          svc   == PlantsServiceMap(out.value).v
      IN out.kind = "ok" =>
           /\ Len(v) <= top
           /\ Len(v) = (IF Cardinality(facts) < top THEN Cardinality(facts) ELSE top)
           /\ \A i \in DOMAIN v :
                /\ Field(v[i], "rank") = JsNum(i)
                /\ \E g \in facts : /\ Field(v[i], "id") = JsNum(g.id)
                                    /\ net(v[i]) = <<g.netGeneration, 1>>
                /\ \A j \in DOMAIN v : i < j =>
                     /\ net(v[i])[1] * net(v[j])[2] >= net(v[j])[1] * net(v[i])[2]
                     /\ Field(v[i], "id") # Field(v[j], "id")
                /\ \A g \in facts :
                     (\A j \in DOMAIN v : Field(v[j], "id") # JsNum(g.id)) =>
                       g.netGeneration * net(v[i])[2] <= net(v[i])[1]
           /\ Len(svc) = Len(v)
           /\ \A i \in DOMAIN v :
                /\ Field(svc[i], "id") = Field(v[i], "id")
                /\ Field(svc[i], "netGeneration") = Field(v[i], "netGeneration")
                /\ Field(svc[i], "rank") = JsNum(i)

\* The store holds facts of several sizes in two states: the global top 1
\* leaves facts out and is the largest of them, the top 10 of one state lists
\* only that state's plants, and the global top 10 lists more than that with
\* the first record strictly larger than the last.
C24_Witness ==
  /\ Cardinality(gens) > 2
  /\ LET one == getTopNPlants(Db, 1, <<>>, 0).value.v
         tx1 == getTopNPlants(Db, DEFAULT_TOP, TX, CURRENT_YEAR).value.v
         v   == getTopNPlants(Db, DEFAULT_TOP, <<>>, CURRENT_YEAR).value.v
     IN /\ Len(one) = 1
        /\ \A g \in gens : g.netGeneration <= Field(one[1], "netGeneration").v[1]
        /\ Len(tx1) > 1
        /\ Len(v) > Len(tx1)
        /\ Field(v[1], "netGeneration").v[1] > Field(v[Len(v)], "netGeneration").v[1]
        /\ Field(v[Len(v)], "rank") = JsNum(Len(v))

\* C25 (as stated): for every year, the percentOfNational values of the
\* states getStatesSummary(year) returns sum to 100, each being the state's
\* aggregate divided by the sum of the returned aggregates times 100, and the
\* list is ordered by totalGeneration descending.
C25_PercentsSumTo100 ==
  \A year \in {CURRENT_YEAR, CURRENT_YEAR - 1} :
    LET v == getStatesSummary(Db, year).value.v
        total(r)   == Field(r, "totalGeneration").v
        percent(r) == Field(r, "percentOfNational").v
        RECURSIVE SumTotals(_)
        SumTotals(k) == IF k = 0 THEN 0 ELSE total(v[k])[1] + SumTotals(k - 1)
        national == SumTotals(Len(v))
        \* the sum of the percentages, as a number of national-ths
        RECURSIVE SumPercents(_)
        SumPercents(k) ==
          IF k = 0 THEN 0
          ELSE percent(v[k])[1] * (national \div percent(v[k])[2]) + SumPercents(k - 1)
    IN Len(v) > 0 =>
         /\ \A i \in DOMAIN v : \A j \in DOMAIN v :
              i < j => total(v[i])[1] >= total(v[j])[1]
         /\ \A i \in DOMAIN v :
              /\ total(v[i])[2] = 1
              /\ percent(v[i])[1] * national = total(v[i])[1] * 100 * percent(v[i])[2]
         /\ national > 0
         /\ \A i \in DOMAIN v : national % percent(v[i])[2] = 0
         /\ SumPercents(Len(v)) = 100 * national

\* C26 (as stated): once warmAllStates has returned and the run has ended,
\* with a cache that was not down, no key the warm step targets (the state
\* list, and the five entries of each state) holds anything but the value
\* computed from the store and the view as they are after the ingestion.
C26_WarmingOverwrites ==
  (pc = "exited" /\ exitCode = 0 /\ Logged("warm:states") /\ redisMode # "down") =>
    /\ RedisGet(cache, FindAllKey) \in {Absent, JSONstringify(FindAllRows(Db))}
    /\ \A i \in DOMAIN states :
         LET calls == WarmCalls(Db, states[i].code) IN
         \A k \in DOMAIN calls :
           RedisGet(cache, calls[k][1]) \in {Absent, JSONstringify(calls[k][2])}

\* C28 (as stated): in a run whose Redis ping failed, no key is deleted by
\* the invalidation and no state is warmed: the two cache steps are skipped.
C28_PingFailureSkipsCacheSteps ==
  Logged("redis:unavailable") =>
    /\ ~Logged("invalidate:ok")
    /\ \A i \in DOMAIN scan : scan[i].deleted = 0
    /\ ~Logged("warm:states")
    /\ warm.count = 0

\* C27: in every record getTopNPlants returns, percentOfState is a number;
\* it is exactly 0 when the aggregate has no row for the fact's (stateId,
\* year) pair or the row's total is zero, and netGeneration / total * 100
\* when the total is positive: no division by zero, no undefined, no NaN.
C27_PercentZeroWithoutTotal ==
  \A stateCode \in {<<>>, TX, FL} : \A year \in {0, CURRENT_YEAR} :
    LET out == getTopNPlants(Db, DEFAULT_TOP, stateCode, year) IN
    out.kind = "ok" =>
      \A i \in DOMAIN out.value.v :
        LET r    == out.value.v[i]
            g    == CHOOSE x \in gens : JsNum(x.id) = Field(r, "id")
            rows == { m \in mv : m.state_id = plants[g.plantId].stateId /\ m.year = g.year }
            p    == Field(r, "percentOfState")
        IN /\ p.t = "number"
           /\ p.v[2] > 0
           /\ (rows = {} \/ \A m \in rows : m.total_generation = 0) => p = JsNum(0)
           /\ \A m \in rows : m.total_generation > 0 =>
                p.v[1] * m.total_generation = g.netGeneration * 100 * p.v[2]

\* The transaction has committed a fact with a positive amount for a state
\* that has no aggregate row yet (the view is not refreshed): the record of
\* that fact has percentOfState 0.
C27_Witness ==
  /\ Logged("tx:committed")
  /\ ~Logged("refresh:ok")
  /\ \E g \in gens :
       /\ g.netGeneration > 0
       /\ ~ \E m \in mv : m.state_id = plants[g.plantId].stateId /\ m.year = g.year
       /\ LET v == getTopNPlants(Db, DEFAULT_TOP, <<>>, 0).value.v IN
          \E i \in DOMAIN v : /\ Field(v[i], "id") = JsNum(g.id)
                              /\ Field(v[i], "percentOfState") = JsNum(0)

\* C29: a service call that ends with NotFound or with a store failure has
\* invoked the Query Engine, is not a hit and leaves the cache as it was; the
\* key of a query whose outcome is an error never has an entry; and the next
\* call with the same parameters (no call on that key in between) is not a
\* hit and invokes the Query Engine again (unless its cache read fails).
C29_ErrorsAreNotCached ==
  [][ /\ (/\ Len(done') = Len(done) + 1
          /\ done'[Len(done')].out.kind \in {"NotFound", "StoreError"}) =>
            /\ cache' = cache
            /\ ~done'[Len(done')].hit
            /\ done'[Len(done')].calls > 0
            /\ engineCalls' > engineCalls
      /\ \A q \in Queries :
           Uncached(q, Db).kind # "ok" => CacheKeyOf(q) \notin DOMAIN cache'
      /\ \A i \in DOMAIN done' : \A j \in DOMAIN done' :
           (/\ i < j
            /\ done'[i].q = done'[j].q
            /\ done'[i].out.kind \in {"NotFound", "StoreError"}
            /\ \A m \in DOMAIN done' : (i < m /\ m < j) => done'[m].key # done'[i].key) =>
              /\ ~done'[j].hit
              /\ done'[j].out.kind # "CacheError" => done'[j].calls > 0 ]_vars

\* A query for an unknown plant was answered NotFound twice, each time by the
\* Query Engine, and its key has no entry.
C29_Witness ==
  /\ Len(done) = MaxRequests
  /\ done[1].out.kind = "NotFound"
  /\ done[2].q = done[1].q
  /\ done[2].out.kind = "NotFound"
  /\ done[2].calls > 0
  /\ engineCalls > 1
  /\ done[1].key \notin DOMAIN cache

\* Time passes in Redis: the time-to-live an entry has left goes down by the
\* seconds elapsed, whatever is read meanwhile, and an entry with none left
\* is gone.
Tick ==
  /\ DOMAIN cache # {}
  /\ \E d \in {CACHE_TTL \div 2, CACHE_TTL} :
       cache' = [k \in { x \in DOMAIN cache : cache[x].ttl > d } |->
                   [cache[k] EXCEPT !.ttl = @ - d]]
  /\ UNCHANGED <<redisMode, boot, faults, storeVars, mv, clientVars, pipeVars>>

\* Requests against a healthy cache whose entries age and expire.
SpecExpire == Init /\ [][Client(Queries) \/ Tick]_vars

\* C30: a step that answers from the cache leaves the cache, and so every
\* time-to-live, as it is; an entry appears, changes its text or gains
\* time-to-live only by the setex of a request that missed, with CACHE_TTL
\* (3600) seconds; no entry ever has more than CACHE_TTL seconds left, and
\* the passing of time takes the elapsed seconds from every entry, served or
\* not, so an entry is gone CACHE_TTL seconds after its write at the latest.
\* The repository's read-through does the same: a hit returns the cache
\* untouched, a miss writes with CACHE_TTL.
C30_HitsNeverExtendTtl ==
  [][ /\ (Len(done') = Len(done) + 1 /\ done'[Len(done')].hit) => cache' = cache
      /\ \A k \in DOMAIN cache' :
           (\/ k \notin DOMAIN cache
            \/ cache'[k].v # cache[k].v
            \/ cache'[k].ttl > cache[k].ttl) =>
             /\ req.pc = "setex"
             /\ req.cached = Absent
             /\ k = req.key
             /\ cache'[k].ttl = CACHE_TTL
             /\ CACHE_TTL = 3600
      /\ \A k \in DOMAIN cache' : 0 < cache'[k].ttl /\ cache'[k].ttl <= CACHE_TTL
      /\ (req' = req /\ cache' # cache) =>
           \E d \in 1..CACHE_TTL :
             /\ DOMAIN cache' = { k \in DOMAIN cache : cache[k].ttl > d }
             /\ \A k \in DOMAIN cache' : cache'[k].ttl = cache[k].ttl - d
      /\ \A k \in DOMAIN cache' \cup {FindAllKey} :
           LET r == ReadThrough(cache', k, FindAllRows(Db), FALSE) IN
           IF k \in DOMAIN cache'
           THEN r.hit /\ r.cache = cache'
           ELSE ~r.hit /\ r.cache[k].ttl = CACHE_TTL ]_vars

\* An entry written by a miss has aged, a second request has been answered
\* from it, and it still has less than CACHE_TTL seconds left.
C30_Witness ==
  /\ Len(done) = MaxRequests
  /\ ~done[1].hit
  /\ done[2].hit
  /\ done[2].key = done[1].key
  /\ done[2].key \in DOMAIN cache
  /\ cache[done[2].key].ttl < CACHE_TTL
====
